---------------------------- MODULE Spec2Model ----------------------------
(***************************************************************************)
(* Workload lifecycle of the edge AI sizing tool: the afterChange and      *)
(* afterDelete hooks of the Workloads collection, the PM2 wrapper they     *)
(* drive (startPm2Process / stopPm2Process / deletePm2Process), and the    *)
(* uploaded-file handling of the delete hook.                              *)
(*                                                                         *)
(* Strings are sequences of one-character strings, so that the regular     *)
(* expressions, path operations and concatenations of the source are       *)
(* computed character by character.                                        *)
(***************************************************************************)
EXTENDS Integers, Sequences, FiniteSets, TLC

(***************************************************************************)
(* Bounds of the model.                                                    *)
(***************************************************************************)
MaxId == 1
MaxNameLen == 4
MaxDevices == 2

Ids == 1..MaxId

(***************************************************************************)
(* Characters and character classes of the regular expressions.            *)
(***************************************************************************)
Letters == {"a", "b", "c", "d", "e", "f", "g", "h", "i", "j", "k", "l", "m",
            "n", "o", "p", "q", "r", "s", "t", "u", "v", "w", "x", "y", "z",
            "A", "B", "C", "D", "E", "F", "G", "H", "I", "J", "K", "L", "M",
            "N", "O", "P", "Q", "R", "S", "T", "U", "V", "W", "X", "Y", "Z"}
DigitChars == <<"0", "1", "2", "3", "4", "5", "6", "7", "8", "9">>
Digits == {DigitChars[i] : i \in 1..Len(DigitChars)}
\* \w of a JavaScript regular expression
WordChars == Letters \cup Digits \cup {"_"}
\* [a-zA-Z0-9._-] and [\w.-]
FileNameChars == WordChars \cup {".", "-"}
\* the complement of [^\w.@\-\/ \-]
NameChars == WordChars \cup {".", "@", "-", "/", " "}
\* the complement of [^\w.@\-\/\\ :,]
ParamChars == WordChars \cup {".", "@", "-", "/", "\\", " ", ":", ","}

SEP == "/"

(***************************************************************************)
(* String helpers.                                                         *)
(***************************************************************************)
RECURSIVE Concat(_)
\* the concatenation of a sequence of strings
Concat(ss) == IF ss = <<>> THEN <<>> ELSE Head(ss) \o Concat(Tail(ss))

\* String.prototype.startsWith
StartsWith(s, prefix) ==
    /\ Len(prefix) <= Len(s)
    /\ SubSeq(s, 1, Len(prefix)) = prefix

\* String.prototype.includes
Includes(s, sub) ==
    \E i \in 1..(Len(s) + 1) :
        /\ i + Len(sub) - 1 <= Len(s)
        /\ SubSeq(s, i, i + Len(sub) - 1) = sub

\* RegExp /^[class]+$/ .test(s)
AllIn(s, class) == s # <<>> /\ \A i \in 1..Len(s) : s[i] \in class

\* s.replace(/[^class]/g, '')
Strip(s, class) == SelectSeq(s, LAMBDA c : c \in class)

RECURSIVE ReplaceWs(_)
\* s.replace(/\s+/g, '-'): every run of blanks becomes one dash
ReplaceWs(s) ==
    IF s = <<>> THEN <<>>
    ELSE IF Head(s) = " "
         THEN IF Len(s) > 1 /\ s[2] = " "
              THEN ReplaceWs(Tail(s))
              ELSE <<"-">> \o ReplaceWs(Tail(s))
         ELSE <<Head(s)>> \o ReplaceWs(Tail(s))

RECURSIVE ToStr(_)
\* Number.prototype.toString of a non-negative integer
ToStr(n) ==
    IF n < 10 THEN <<DigitChars[n + 1]>>
    ELSE ToStr(n \div 10) \o <<DigitChars[(n % 10) + 1]>>

RECURSIVE Split(_)
\* s.split(path.sep)
Split(s) ==
    IF \A i \in 1..Len(s) : s[i] # SEP THEN <<s>>
    ELSE LET i == CHOOSE k \in 1..Len(s) :
                      s[k] = SEP /\ \A j \in 1..(k - 1) : s[j] # SEP
         IN  <<SubSeq(s, 1, i - 1)>> \o Split(SubSeq(s, i + 1, Len(s)))

(***************************************************************************)
(* path (POSIX).                                                           *)
(***************************************************************************)
RECURSIVE StripTrailingSep(_)
StripTrailingSep(s) ==
    IF s # <<>> /\ s[Len(s)] = SEP
    THEN StripTrailingSep(SubSeq(s, 1, Len(s) - 1))
    ELSE s

RECURSIVE AfterLastSep(_)
AfterLastSep(s) ==
    IF s = <<>> \/ s[Len(s)] = SEP THEN <<>>
    ELSE AfterLastSep(SubSeq(s, 1, Len(s) - 1)) \o <<s[Len(s)]>>

\* path.basename: the last portion of a path, trailing separators ignored
Basename(p) == AfterLastSep(StripTrailingSep(p))

RECURSIVE NormSegments(_, _, _)
\* the segments of a normalized path: "" and "." vanish, ".." removes the
\* segment before it (a relative path keeps the ".." it cannot resolve)
NormSegments(segs, acc, absolute) ==
    IF segs = <<>> THEN acc
    ELSE LET s == Head(segs)
             next == IF s = <<>> \/ s = <<".">> THEN acc
                     ELSE IF s = <<".", ".">>
                          THEN IF acc # <<>> /\ acc[Len(acc)] # <<".", ".">>
                               THEN SubSeq(acc, 1, Len(acc) - 1)
                               ELSE IF absolute THEN acc ELSE Append(acc, s)
                          ELSE Append(acc, s)
         IN  NormSegments(Tail(segs), next, absolute)

RECURSIVE JoinSegments(_)
JoinSegments(segs) ==
    IF segs = <<>> THEN <<>>
    ELSE IF Len(segs) = 1 THEN Head(segs)
         ELSE Head(segs) \o <<SEP>> \o JoinSegments(Tail(segs))

IsAbsolute(p) == p # <<>> /\ p[1] = SEP

\* path.normalize, without the trailing separator (no path of the hooks
\* keeps one: the joined names come out of Basename)
Normalize(p) ==
    LET segs == NormSegments(Split(p), <<>>, IsAbsolute(p))
    IN  IF IsAbsolute(p) THEN <<SEP>> \o JoinSegments(segs)
        ELSE IF segs = <<>> THEN <<".">> ELSE JoinSegments(segs)

\* path.join: the non-empty parts joined by the separator, then normalized
PathJoin(parts) ==
    LET used == SelectSeq(parts, LAMBDA x : x # <<>>)
    IN  IF used = <<>> THEN <<".">> ELSE Normalize(JoinSegments(used))

\* process.cwd() of the server (the frontend directory)
Cwd == <<"/", "f">>

\* path.resolve of one path: relative paths are resolved against Cwd
PathResolve(p) ==
    IF IsAbsolute(p) THEN Normalize(p) ELSE Normalize(Cwd \o <<SEP>> \o p)

\* ASSETS_PATH with the environment variable unset: <cwd>/../m, the media
\* directory beside the frontend directory
ASSETS_PATH == PathJoin(<<Cwd, <<".", ".", "/", "m">>>>)

(***************************************************************************)
(* The PM2 process table.  PM2 is an external tool: the model keeps what   *)
(* its commands do to the table and whether they exit with an error,       *)
(* which is all the wrapper sees.  An entry is one process PM2 manages;    *)
(* PM2 identifies an existing process of a start command by its name AND   *)
(* its script path, so two entries may share a name.                       *)
(***************************************************************************)
Named(table, name) == {p \in table : p.name = name}
Online(table, name) == {p \in Named(table, name) : p.status = "online"}

SetStatus(table, name, status) ==
    {IF p.name = name THEN [p EXCEPT !.status = status] ELSE p : p \in table}

\* `pm2 start <name>`: restarts the processes of that name, an error when
\* there is none
Pm2StartByName(table, name) ==
    IF Named(table, name) = {} THEN [ok |-> FALSE, table |-> table]
    ELSE [ok |-> TRUE, table |-> SetStatus(table, name, "online")]

\* `pm2 start <script> --name <name> --no-autorestart -- <params>`:
\* when a process of that name and script is stopped, the processes of the
\* name are restarted; when it is online, an error ("Script already
\* launched"); otherwise a process is launched
Pm2StartScript(table, name, script, params) ==
    LET same == {p \in Named(table, name) : p.script = script}
    IN  IF same = {}
        THEN [ok |-> TRUE,
              table |-> table \cup {[name |-> name, script |-> script,
                                     params |-> params, status |-> "online"]}]
        ELSE IF \E p \in same : p.status = "online"
             THEN [ok |-> FALSE, table |-> table]
             ELSE [ok |-> TRUE, table |-> SetStatus(table, name, "online")]

\* `pm2 stop <name>`: stops the processes of that name, an error when
\* there is none
Pm2Stop(table, name) ==
    IF Named(table, name) = {} THEN [ok |-> FALSE, table |-> table]
    ELSE [ok |-> TRUE, table |-> SetStatus(table, name, "stopped")]

\* `pm2 delete <name>`: removes the processes of that name, an error when
\* there is none
Pm2Delete(table, name) ==
    IF Named(table, name) = {} THEN [ok |-> FALSE, table |-> table]
    ELSE [ok |-> TRUE, table |-> table \ Named(table, name)]

(***************************************************************************)
(* pm2Lib: the wrapper around the PM2 command line.                        *)
(***************************************************************************)
\* runCommand: executes one command line in a shell.  execFails is the
\* environment's part (npx or the PM2 daemon failing); the command also
\* fails when PM2 exits with an error.  Either way the rejection of
\* execAsync is logged and thrown again.
runCommand(command, table, execFails) ==
    LET done ==
            CASE command.op = "start" /\ command.script = <<>> ->
                     Pm2StartByName(table, command.name)
              [] command.op = "start" /\ command.script # <<>> ->
                     Pm2StartScript(table, command.name, command.script,
                                    command.params)
              [] command.op = "stop" -> Pm2Stop(table, command.name)
              [] command.op = "delete" -> Pm2Delete(table, command.name)
    IN  IF execFails
        THEN [threw |-> TRUE, table |-> table, execFailed |-> TRUE]
        ELSE [threw |-> ~done.ok, table |-> done.table, execFailed |-> FALSE]

\* the workers directory beside the frontend directory, and the script in
\* the folder of a worker
WORKERS == <<".", ".", "/", "w">>
MAIN_PY == <<"m", "a", "i", "n", ".", "p", "y">>

\* startPm2Process(pm2Name, scriptName, params); a command with an empty
\* script is the start by name
startPm2Process(pm2Name, scriptName, params, table, execFails) ==
    LET name == Strip(pm2Name, NameChars)
        script == Strip(scriptName, NameChars)
        args == Strip(params, ParamChars)
        scriptFolder == PathResolve(PathJoin(<<WORKERS, ReplaceWs(script)>>))
        scriptPath == PathJoin(<<scriptFolder, MAIN_PY>>)
    IN  IF script = <<>> /\ args = <<>>
        THEN runCommand([op |-> "start", name |-> name, script |-> <<>>,
                         params |-> <<>>], table, execFails)
        ELSE runCommand([op |-> "start", name |-> name,
                         script |-> scriptPath, params |-> args],
                        table, execFails)

\* stopPm2Process(pm2Name)
stopPm2Process(pm2Name, table, execFails) ==
    runCommand([op |-> "stop", name |-> Strip(pm2Name, NameChars),
                script |-> <<>>, params |-> <<>>], table, execFails)

\* a slip of the command word: the delete wrapper issues `pm2 stop`
deletePm2ProcessStopping(pm2Name, table, execFails) ==
    runCommand([op |-> "stop", name |-> Strip(pm2Name, NameChars),
                script |-> <<>>, params |-> <<>>], table, execFails)

\* deletePm2Process(pm2Name)
deletePm2Process(pm2Name, table, execFails) ==
    runCommand([op |-> "delete", name |-> Strip(pm2Name, NameChars),
                script |-> <<>>, params |-> <<>>], table, execFails)

(***************************************************************************)
(* Literals of the hooks.                                                  *)
(***************************************************************************)
DEVICE_FLAG == <<"-", "-", "d", "e", "v", "i", "c", "e", " ">>
MODEL_FLAG == <<" ", "-", "-", "m", "o", "d", "e", "l", " ">>
PORT_FLAG == <<" ", "-", "-", "p", "o", "r", "t", " ">>
ID_FLAG == <<" ", "-", "-", "i", "d", " ">>
TCP_PORT_FLAG == <<" ", "-", "-", "t", "c", "p", "_", "p", "o", "r", "t", " ">>
INPUT_FLAG == <<" ", "-", "-", "i", "n", "p", "u", "t", " ">>
AUTO_PREFIX == <<"A", "U", "T", "O", ":">>
DLSTREAMER_MARK == <<"(", "D", "L", "S", "t", "r", "e", "a", "m", "e", "r">>
DLSTREAMER_SCRIPT == <<"d", "l", "s", "t", "r", "e", "a", "m", "e", "r">>
\* usecase names of the workload pages
TextGeneration ==
    <<"t", "e", "x", "t", " ", "g", "e", "n", "e", "r", "a", "t", "i", "o", "n">>
TextToImage ==
    <<"t", "e", "x", "t", "-", "t", "o", "-", "i", "m", "a", "g", "e">>
ObjectDetection ==
    <<"o", "b", "j", "e", "c", "t", " ", "d", "e", "t", "e", "c", "t", "i", "o",
      "n", " ", "(", "D", "L", "S", "t", "r", "e", "a", "m", "e", "r", ")">>
TCP_PORT_OFFSET == 1000

(***************************************************************************)
(* createWorkloadAfterChange.                                              *)
(*                                                                         *)
(* A workload document is a record [id, status, usecase, devices, model,   *)
(* port, source]; devices is the sequence of the device names (<<>> for a  *)
(* row without one), source is [type, name] with name <<>> when there is   *)
(* no source.  A hook returns the process table it leaves, the supervisor  *)
(* calls it made, in order, and whether it threw.                          *)
(***************************************************************************)
RECURSIVE DevicesName(_, _)
\* doc.devices.reduce(..., ''): acc is the accumulator
DevicesName(devices, acc) ==
    IF devices = <<>> THEN acc
    ELSE LET deviceName == Head(devices)
         IN  DevicesName(Tail(devices),
                         IF acc = <<>> THEN deviceName
                         ELSE acc \o <<",">> \o deviceName)

\* a slip of the comparison: the prefix is put before a single device too
DeviceArgumentFromOne(devices) ==
    LET devicesName == DevicesName(devices, <<>>)
    IN  IF Len(devices) >= 1 THEN AUTO_PREFIX \o devicesName ELSE devicesName

\* the value of --device: the names, behind AUTO: when there are several
DeviceArgument(devices) ==
    LET devicesName == DevicesName(devices, <<>>)
    IN  IF Len(devices) > 1 THEN AUTO_PREFIX \o devicesName ELSE devicesName

\* a slip of the source test: the media directory is put before a camera's
\* name too
LaunchPlanJoiningAll(doc) ==
    LET devices == DeviceArgument(doc.devices)
        params == DEVICE_FLAG \o devices \o MODEL_FLAG \o doc.model
                  \o PORT_FLAG \o ToStr(doc.port) \o ID_FLAG \o ToStr(doc.id)
    IN  IF Includes(doc.usecase, DLSTREAMER_MARK) /\ doc.source.name # <<>>
        THEN [usecaseName |-> DLSTREAMER_SCRIPT,
              params |->
                  params
                  \o (IF doc.port # 0
                      THEN TCP_PORT_FLAG \o ToStr(doc.port + TCP_PORT_OFFSET)
                      ELSE <<>>)
                  \o INPUT_FLAG \o PathJoin(<<ASSETS_PATH, doc.source.name>>)]
        ELSE [usecaseName |-> doc.usecase, params |-> params]

\* the script name and the parameters of the `prepare` branch
LaunchPlan(doc) ==
    LET devices == DeviceArgument(doc.devices)
        params == DEVICE_FLAG \o devices \o MODEL_FLAG \o doc.model
                  \o PORT_FLAG \o ToStr(doc.port) \o ID_FLAG \o ToStr(doc.id)
    IN  IF Includes(doc.usecase, DLSTREAMER_MARK) /\ doc.source.name # <<>>
        THEN [usecaseName |-> DLSTREAMER_SCRIPT,
              params |->
                  params
                  \o (IF doc.port # 0
                      THEN TCP_PORT_FLAG \o ToStr(doc.port + TCP_PORT_OFFSET)
                      ELSE <<>>)
                  \o (IF doc.source.type # "cam"
                      THEN INPUT_FLAG
                           \o PathJoin(<<ASSETS_PATH, doc.source.name>>)
                      ELSE INPUT_FLAG \o doc.source.name)]
        ELSE [usecaseName |-> doc.usecase, params |-> params]

\* one supervisor call as the hook made it: the operation, its arguments,
\* whether it threw, and whether that was the environment's doing
Call(op, pm2Name, scriptName, params, result) ==
    [op |-> op, name |-> pm2Name, script |-> scriptName, params |-> params,
     threw |-> result.threw, execFailed |-> result.execFailed]

NoCalls(table) == [table |-> table, calls |-> <<>>, threw |-> FALSE]

\* await stopPm2Process(doc.id.toString())
StopWorker(doc, table, execFails) ==
    LET r == stopPm2Process(ToStr(doc.id), table, execFails)
    IN  [table |-> r.table, threw |-> r.threw,
         calls |-> <<Call("stop", ToStr(doc.id), <<>>, <<>>, r)>>]

\* a slip of the arguments: the reactivated worker is started with the
\* script and the parameters of a launch
ResumeWorkerLaunching(doc, table, execFails) ==
    LET plan == LaunchPlan(doc)
        r == startPm2Process(ToStr(doc.id), plan.usecaseName, plan.params,
                             table, execFails)
    IN  [table |-> r.table, threw |-> r.threw,
         calls |-> <<Call("start", ToStr(doc.id), plan.usecaseName,
                          plan.params, r)>>]

\* await startPm2Process(doc.id.toString(), '', '')
ResumeWorker(doc, table, execFails) ==
    LET r == startPm2Process(ToStr(doc.id), <<>>, <<>>, table, execFails)
    IN  [table |-> r.table, threw |-> r.threw,
         calls |-> <<Call("start", ToStr(doc.id), <<>>, <<>>, r)>>]

\* await startPm2Process(doc.id.toString(), usecaseName, params)
LaunchWorker(doc, table, execFails) ==
    LET plan == LaunchPlan(doc)
        r == startPm2Process(ToStr(doc.id), plan.usecaseName, plan.params,
                             table, execFails)
    IN  [table |-> r.table, threw |-> r.threw,
         calls |-> <<Call("start", ToStr(doc.id), plan.usecaseName,
                          plan.params, r)>>]

\* a slip of the last test: a write into active launches the worker as a
\* write into prepare does
createWorkloadAfterChangeLaunching(previousStatus, doc, table, execFails) ==
    IF previousStatus = "active" /\ doc.status = "inactive"
    THEN StopWorker(doc, table, execFails)
    ELSE IF previousStatus = "inactive" /\ doc.status = "active"
    THEN ResumeWorker(doc, table, execFails)
    ELSE IF doc.status \in {"prepare", "active"}
    THEN LaunchWorker(doc, table, execFails)
    ELSE NoCalls(table)

\* a slip in the first branch: the deactivated worker is stopped and then
\* removed from PM2, as on deletion
createWorkloadAfterChangeRemoving(previousStatus, doc, table, execFails) ==
    IF previousStatus = "active" /\ doc.status = "inactive"
    THEN LET stopped == StopWorker(doc, table, execFails)
             r == deletePm2Process(ToStr(doc.id), stopped.table, execFails)
         IN  IF stopped.threw THEN stopped
             ELSE [table |-> r.table, threw |-> r.threw,
                   calls |-> Append(stopped.calls,
                                    Call("delete", ToStr(doc.id), <<>>, <<>>,
                                         r))]
    ELSE IF previousStatus = "inactive" /\ doc.status = "active"
    THEN ResumeWorker(doc, table, execFails)
    ELSE IF doc.status = "prepare"
    THEN LaunchWorker(doc, table, execFails)
    ELSE NoCalls(table)

createWorkloadAfterChange(previousStatus, doc, table, execFails) ==
    IF previousStatus = "active" /\ doc.status = "inactive"
    THEN StopWorker(doc, table, execFails)
    ELSE IF previousStatus = "inactive" /\ doc.status = "active"
    THEN ResumeWorker(doc, table, execFails)
    ELSE IF doc.status = "prepare"
    THEN LaunchWorker(doc, table, execFails)
    ELSE NoCalls(table)

(***************************************************************************)
(* deleteWorkloadAfterDelete.                                              *)
(***************************************************************************)
\* the directories of the file system
Dirs == {<<SEP>>, Cwd, ASSETS_PATH}

\* fs.existsSync
ExistsSync(path, files) == path \in files \cup Dirs

\* the re-validation of the path segments: some segment is not /^[\w.-]+$/
InvalidSegment(parts) == \E i \in 1..Len(parts) : ~AllIn(parts[i], FileNameChars)

\* the handling without the re-validation of the segments: the candidate
\* path itself is unlinked once it exists
UploadedFileUnsplit(doc, files) ==
    IF doc.source.type = "file" /\ doc.source.name # <<>>
    THEN LET basePath == PathResolve(ASSETS_PATH)
             rawName == Basename(doc.source.name)
             candidatePath == PathResolve(PathJoin(<<basePath, rawName>>))
         IN  IF ~StartsWith(candidatePath, basePath)
             THEN [outcome |-> "pathRejected", files |-> files,
                   returned |-> TRUE, threw |-> FALSE]
             ELSE IF ~AllIn(rawName, FileNameChars)
             THEN [outcome |-> "nameRejected", files |-> files,
                   returned |-> TRUE, threw |-> FALSE]
             ELSE IF ~ExistsSync(candidatePath, files)
             THEN [outcome |-> "absent", files |-> files,
                   returned |-> FALSE, threw |-> FALSE]
             ELSE IF candidatePath \in files
             THEN [outcome |-> "deleted", files |-> files \ {candidatePath},
                   returned |-> FALSE, threw |-> FALSE]
             ELSE [outcome |-> "unlinkFailed", files |-> files,
                   returned |-> FALSE, threw |-> TRUE]
    ELSE [outcome |-> "noFile", files |-> files,
          returned |-> FALSE, threw |-> FALSE]

\* the handling of the uploaded file: what became of it, the files left on
\* disk, whether the hook returned from inside it, whether it threw
UploadedFile(doc, files) ==
    IF doc.source.type = "file" /\ doc.source.name # <<>>
    THEN LET basePath == PathResolve(ASSETS_PATH)
             rawName == Basename(doc.source.name)
             candidatePath == PathResolve(PathJoin(<<basePath, rawName>>))
             parts == Split(candidatePath)
             sanitizedCandidatePath == PathResolve(PathJoin(parts))
         IN  IF ~StartsWith(candidatePath, basePath)
             THEN [outcome |-> "pathRejected", files |-> files,
                   returned |-> TRUE, threw |-> FALSE]
             ELSE IF ~AllIn(rawName, FileNameChars)
             THEN [outcome |-> "nameRejected", files |-> files,
                   returned |-> TRUE, threw |-> FALSE]
             ELSE IF ~ExistsSync(candidatePath, files)
             THEN [outcome |-> "absent", files |-> files,
                   returned |-> FALSE, threw |-> FALSE]
             ELSE IF InvalidSegment(parts)
             THEN [outcome |-> "segmentRejected", files |-> files,
                   returned |-> TRUE, threw |-> FALSE]
             ELSE IF sanitizedCandidatePath \in files
             THEN [outcome |-> "deleted",
                   files |-> files \ {sanitizedCandidatePath},
                   returned |-> FALSE, threw |-> FALSE]
             ELSE [outcome |-> "unlinkFailed", files |-> files,
                   returned |-> FALSE, threw |-> TRUE]
    ELSE [outcome |-> "noFile", files |-> files,
          returned |-> FALSE, threw |-> FALSE]

\* execFails is the pair of the environment's parts of the two commands
deleteWorkloadAfterDelete(doc, table, files, execFails) ==
    LET file == UploadedFile(doc, files)
        stopped == stopPm2Process(ToStr(doc.id), table, execFails[1])
        stopCall == Call("stop", ToStr(doc.id), <<>>, <<>>, stopped)
        deleted == deletePm2Process(ToStr(doc.id), stopped.table, execFails[2])
        deleteCall == Call("delete", ToStr(doc.id), <<>>, <<>>, deleted)
    IN  IF file.returned \/ file.threw
        THEN [table |-> table, files |-> file.files, calls |-> <<>>,
              threw |-> file.threw, file |-> file.outcome]
        ELSE IF stopped.threw
        THEN [table |-> stopped.table, files |-> file.files,
              calls |-> <<stopCall>>, threw |-> TRUE, file |-> file.outcome]
        ELSE [table |-> deleted.table, files |-> file.files,
              calls |-> <<stopCall, deleteCall>>, threw |-> deleted.threw,
              file |-> file.outcome]

(***************************************************************************)
(* The GPU routes: POST /custom/gpu-utilization and /custom/gpu-memory.    *)
(*                                                                         *)
(* A device of a request is [device, busaddr]; NullAddr is a busaddr of    *)
(* null.  The tool spawned for a device settles the promise of that device *)
(* with its first event, which `tool` names: stderr output, stdout output  *)
(* that parses (with the metric or without it), stdout output that does    *)
(* not parse, the error event of a failed spawn, close without output, or  *)
(* nothing at all (hang).                                                  *)
(***************************************************************************)
HexChars == Digits \cup {"a", "b", "c", "d", "e", "f",
                         "A", "B", "C", "D", "E", "F"}
NullAddr == <<"null">>
\* null in the place of a number (the numbers of the tools are not negative)
Null == -1
NoError == "none"
INVALID_BUS == "Invalid or missing bus address"

\* the pattern without its $: anything may follow the digit
PairPairDigitUnanchored(s, k) ==
    /\ Len(s) >= k + 6
    /\ s[k] \in HexChars /\ s[k + 1] \in HexChars
    /\ s[k + 2] = ":"
    /\ s[k + 3] \in HexChars /\ s[k + 4] \in HexChars
    /\ s[k + 5] = "."
    /\ s[k + 6] \in Digits

\* /^([0-9a-fA-F]{2}):([0-9a-fA-F]{2})\.[0-9]$/ on s from position k on
PairPairDigitAt(s, k) ==
    /\ Len(s) = k + 6
    /\ s[k] \in HexChars /\ s[k + 1] \in HexChars
    /\ s[k + 2] = ":"
    /\ s[k + 3] \in HexChars /\ s[k + 4] \in HexChars
    /\ s[k + 5] = "."
    /\ s[k + 6] \in Digits

\* isValidBusAddress of gpu-utilization
isValidBusAddressUtilization(busaddr) ==
    IF busaddr = NullAddr \/ busaddr = <<>> THEN FALSE
    ELSE PairPairDigitAt(busaddr, 1)

\* isValidBusAddress of gpu-memory: /^([0-9a-fA-F]{4}:)?.../
isValidBusAddressMemory(busaddr) ==
    IF busaddr = NullAddr \/ busaddr = <<>> THEN FALSE
    ELSE \/ PairPairDigitAt(busaddr, 1)
         \/ /\ Len(busaddr) >= 5
            /\ \A i \in 1..4 : busaddr[i] \in HexChars
            /\ busaddr[5] = ":"
            /\ PairPairDigitAt(busaddr, 6)

isValidBusAddress(route, busaddr) ==
    IF route = "gpu-utilization" THEN isValidBusAddressUtilization(busaddr)
    ELSE isValidBusAddressMemory(busaddr)

\* the devices of a poll are spawned for: gpu.busaddr && isValidBusAddress
Spawns(route, gpu) ==
    gpu.busaddr # NullAddr /\ gpu.busaddr # <<>>
    /\ isValidBusAddress(route, gpu.busaddr)

\* getGpuUtilizationLinux / getMemoryUtilization: how the promise of the
\* spawned tool settles
ToolPromise(route, tool) ==
    CASE tool.event = "stderr" -> [settled |-> "resolved", value |-> 0]
      [] tool.event = "stdout" ->
             [settled |-> "resolved", value |-> tool.value]
      [] tool.event = "stdoutNoMetric" ->
             [settled |-> "resolved",
              value |-> IF route = "gpu-utilization" THEN 0 ELSE Null]
      [] tool.event = "stdoutBad" -> [settled |-> "rejected", value |-> Null]
      [] tool.event = "error" -> [settled |-> "rejected", value |-> Null]
      [] tool.event = "close" -> [settled |-> "resolved", value |-> 0]
      [] tool.event = "hang" -> [settled |-> "pending", value |-> Null]

\* the promise of one device in gpuData.map
DevicePromise(route, gpu, tool) ==
    IF Spawns(route, gpu)
    THEN LET p == ToolPromise(route, tool)
         IN  [settled |-> p.settled,
              sample |-> [device |-> gpu.device, busaddr |-> gpu.busaddr,
                          value |-> p.value, error |-> NoError]]
    ELSE [settled |-> "resolved",
          sample |-> [device |-> gpu.device, busaddr |-> gpu.busaddr,
                      value |-> 0, error |-> INVALID_BUS]]

UNDEFINED == <<"u", "n", "d", "e", "f", "i", "n", "e", "d">>

\* gpuData: the devices of the request, or, without them, the controllers
\* of si.graphics() (a controller's busAddress is "" or undefined, here
\* NullAddr, when it has none)
GpuData(route, fromRequest, devices) ==
    IF fromRequest THEN devices
    ELSE [i \in 1..Len(devices) |->
             [device |-> devices[i].device,
              busaddr |->
                  IF route = "gpu-utilization"
                  THEN (IF devices[i].busaddr \in {<<>>, NullAddr}
                        THEN NullAddr ELSE devices[i].busaddr)
                  ELSE <<"0", "0", "0", "0", ":">>
                       \o (IF devices[i].busaddr = NullAddr THEN UNDEFINED
                           ELSE devices[i].busaddr)]]

\* the indices 1..n that satisfy Test, in order
Indices(n, Test(_)) == SelectSeq([i \in 1..n |-> i], Test)

\* POST: the response of a poll and the devices the tool was spawned for.
\* tools[i] is what the tool of device i does (on Windows gpu-utilization
\* spawns nothing: tools[i].value is then utilizationGpu of controller i)
POST(route, isWindows, fromRequest, devices, tools) ==
    IF route = "gpu-utilization" /\ isWindows
    THEN [status |-> "200",
          samples |-> [i \in 1..Len(devices) |->
                          [device |-> devices[i].device, busaddr |-> NullAddr,
                           value |-> IF tools[i].event = "stdout"
                                     THEN tools[i].value ELSE 0,
                           error |-> NoError]],
          spawned |-> <<>>, validated |-> FALSE]
    ELSE LET gpuData == GpuData(route, fromRequest, devices)
             values == [i \in 1..Len(gpuData) |->
                           DevicePromise(route, gpuData[i], tools[i])]
             spawned == Indices(Len(gpuData),
                                LAMBDA i : Spawns(route, gpuData[i]))
             kept == Indices(Len(gpuData),
                             LAMBDA i : values[i].sample.value # Null)
         IN  IF \E i \in 1..Len(values) : values[i].settled = "rejected"
             THEN [status |-> "500", samples |-> <<>>, spawned |-> spawned,
                   validated |-> TRUE]
             ELSE IF \E i \in 1..Len(values) : values[i].settled = "pending"
             THEN [status |-> "pending", samples |-> <<>>,
                   spawned |-> spawned, validated |-> TRUE]
             ELSE [status |-> "200",
                   samples |-> [k \in 1..Len(kept) |-> values[kept[k]].sample],
                   spawned |-> spawned, validated |-> TRUE]

(***************************************************************************)
(* The monitoring hooks: each metric source is one query of the browser's  *)
(* query client, shared by the components that call the source's hook.     *)
(* A query has a status (pending until its first result, then success or   *)
(* error) and a fetchStatus (fetching while a fetch with its retries is    *)
(* under way).                                                             *)
(***************************************************************************)
cpuUtilization == "cpuUtilization"
memoryUtilization == "memoryUtilization"
gpuUtilization == "gpuUtilization"
npuUtilization == "npuUtilization"
gpuMemory == "gpuMemory"
packagePower == "packagePower"

NOT_OK == "Network response was not ok"
FAILED_TO_FETCH == "Failed to fetch"
TIMED_OUT == "Request timed out. Please refer to the troubleshooting guide."

\* a query nothing has subscribed to yet; attempt is what the fetch under
\* way is doing (its request is out, or it waits before a retry), abandoned
\* counts the requests that are still out for a fetch the query gave up
NewQuery ==
    [status |-> "pending", fetchStatus |-> "idle", hasData |-> FALSE,
     error |-> NoError, failureCount |-> 0, attempt |-> "none",
     abandoned |-> 0, observers |-> 0]

\* the interval after which a query is fetched again, 0 for none
refetchInterval(query) ==
    IF query.status = "success" THEN 3000 ELSE 0

retry(failureCount) == failureCount < 3

\* the query function of a source is called: its request goes out
queryFn(query) ==
    [query EXCEPT !.fetchStatus = "fetching", !.failureCount = 0,
                  !.attempt = "request",
                  !.status = IF query.hasData THEN @ ELSE "pending",
                  !.error = IF query.hasData THEN @ ELSE NoError]

\* a fetch is asked for: one that is under way is joined, unless the caller
\* cancels it and the query has data; the request of a cancelled fetch is
\* not aborted, no query function passes the query's signal to its request
fetch(query, cancelRefetch) ==
    IF query.fetchStatus # "idle"
    THEN IF query.hasData /\ cancelRefetch
         THEN queryFn([query EXCEPT
                          !.abandoned =
                              IF query.attempt = "request" THEN @ + 1 ELSE @])
         ELSE query
    ELSE queryFn(query)

\* the request of the fetch under way gave its data
Succeed(query) ==
    [query EXCEPT !.status = "success", !.hasData = TRUE, !.error = NoError,
                  !.fetchStatus = "idle", !.failureCount = 0,
                  !.attempt = "none"]

\* the query function threw: the fetch waits and tries again, or gives up
Fail(query, reason) ==
    IF retry(query.failureCount)
    THEN [query EXCEPT !.failureCount = @ + 1, !.attempt = "wait"]
    ELSE [query EXCEPT !.status = "error", !.error = reason,
                       !.fetchStatus = "idle", !.attempt = "none"]

\* the timer of the GPU hook fires while its request is out: the request is
\* aborted and the query function throws the timed-out error
AbortNever(query) == query

Abort(query) == Fail(query, TIMED_OUT)

\* what a hook's result says of its query
isLoading(query) == query.status = "pending" /\ query.fetchStatus = "fetching"

\* the chart of a source offers Retry where it shows an error
RetryOffered(query) == ~isLoading(query) /\ query.error # NoError

(***************************************************************************)
(* The power routes: two GET handlers read the counters of the monitoring  *)
(* daemon at http://localhost:9738/persecond; the first one asks for the   *)
(* platform before it does.  The daemon is absent (the connection is       *)
(* refused), answers with an error status, answers with its counters, or   *)
(* answers without them.                                                   *)
(***************************************************************************)
PLATFORM_CHECKED == "GET with isWindows"
UNCHECKED == "GET"
PowerHandlers == {PLATFORM_CHECKED, UNCHECKED}

Daemons ==
    {[event |-> e, intervalUs |-> Null, joules |-> Null] :
         e \in {"refused", "status500", "noCounters"}}
    \cup {[event |-> "ok", intervalUs |-> 1000000, joules |-> 5]}

\* the response of a power handler: called tells whether axios.get was
\* called; a 500 response is a text, it has neither field
PowerGET(handler, isWindows, daemon) ==
    IF handler = PLATFORM_CHECKED /\ isWindows
    THEN [status |-> "200", json |-> TRUE, intervalUs |-> Null,
          joulesConsumed |-> Null, called |-> FALSE]
    ELSE IF daemon.event = "ok"
    THEN [status |-> "200", json |-> TRUE, intervalUs |-> daemon.intervalUs,
          joulesConsumed |-> daemon.joules, called |-> TRUE]
    ELSE [status |-> "500", json |-> FALSE, intervalUs |-> Null,
          joulesConsumed |-> Null, called |-> TRUE]

(***************************************************************************)
(* GPU discovery: GET /custom/xpum-gpu asks the vendor tool                *)
(* (xpumcli discovery -j), another GET handler lists the controllers of    *)
(* si.graphics(), and getGPUInfo of the system-information route lists the *)
(* GPU devices of OpenVINO or, without any, the controllers.               *)
(***************************************************************************)
XPUM == "xpum-gpu"
GRAPHICS == "graphics"
SYSTEM_INFO == "getGPUInfo"
DiscoveryHandlers == {XPUM, GRAPHICS, SYSTEM_INFO}

NOT_AVAILABLE == <<"N", "/", "A">>
SPAWN_ENOENT == "spawn xpumcli ENOENT"

\* GET /custom/xpum-gpu: the tool writes its device list, writes something
\* JSON.parse rejects (the listener throws, the promise is never settled),
\* writes to stderr, cannot be spawned, or ends without a word (no
\* listener settles the promise)
xpumGET(tool) ==
    CASE tool.event = "stdout" ->
             [status |-> "200",
              gpus |-> [i \in 1..Len(tool.device_list) |->
                           [device |-> tool.device_list[i].device_name,
                            busaddr |-> tool.device_list[i].pci_bdf_address]],
              error |-> NoError]
      [] tool.event = "stderr" ->
             [status |-> "200", gpus |-> <<>>, error |-> NoError]
      [] tool.event = "error" ->
             [status |-> "500", gpus |-> <<>>, error |-> SPAWN_ENOENT]
      [] OTHER ->
             [status |-> "pending", gpus |-> <<>>, error |-> NoError]

\* the GET handler over si.graphics()
graphicsGET(controllers) ==
    [status |-> "200",
     gpus |-> [i \in 1..Len(controllers) |->
                  [device |-> controllers[i].model,
                   busaddr |-> controllers[i].busAddress]],
     error |-> NoError]

IsGpuDevice(available_device) ==
    /\ Len(available_device) >= 3
    /\ SubSeq(available_device, 1, 3) = <<"G", "P", "U">>

\* getGPUInfo: FULL_DEVICE_NAME of a device is the name it has in fullNames
getGPUInfo(available_devices, fullNames, controllers) ==
    LET found == SelectSeq(available_devices, IsGpuDevice)
        gpus == [i \in 1..Len(found) |->
                    [id |-> found[i], name |-> fullNames[found[i]],
                     device |-> IF found[i] = <<>> THEN NOT_AVAILABLE
                                ELSE found[i]]]
    IN  IF Len(gpus) > 0 THEN gpus
        ELSE [i \in 1..Len(controllers) |->
                 [id |-> IF controllers[i].busAddress \in {<<>>, NullAddr}
                         THEN ToStr(i - 1)
                         ELSE controllers[i].busAddress,
                  name |-> IF controllers[i].model = <<>>
                           THEN <<"G", "P", "U", " ">> \o ToStr(i - 1)
                           ELSE controllers[i].model,
                  device |-> NOT_AVAILABLE]]

(***************************************************************************)
(* The state: the workload records, the id the next record gets, the PM2   *)
(* process table, the files on disk, and the record of the last hook run   *)
(* (the operation and the document that triggered it, the status of the    *)
(* previous document of a write, its supervisor calls, its outcome).       *)
(***************************************************************************)
VARIABLES workloads, nextId, pm2, disk, last, hooks, poll, queries, page, power, discovery, child, dom

vars ==
    <<workloads, nextId, pm2, disk, last, hooks, poll, queries, page, power,
      discovery, child, dom>>

\* hooks: the hook runs that are under way, by the request they belong to
\* (see SpecConcurrent); a request whose hook ran in one step leaves none
\* poll: the last request to a GPU route (whether it is for Windows, whether
\* it names its devices, the devices, what the tool does for each), with
\* the gpuData it worked on and its response once it is answered
\* queries: the query of each metric source
\* page: what the workload page last rendered
\* power: the last request to a power route and its response
\* discovery: the last GPU discovery and what it gave
\* child: the tool a GPU route spawned for one device, with the promise of
\* its sample and the events it has emitted
\* dom: the document of the browser during an export of the workload page
routes == <<power, discovery, child, dom>>

monitors == <<queries, page, routes>>

others == <<hooks, poll, monitors>>

Statuses == {"prepare", "active", "inactive", "failed"}
NoDoc == [status |-> "none"]
NoSource == [type |-> "", name |-> <<>>]
\* the hook record before any hook has run
BlankDoc == [id |-> 0, status |-> "none", usecase |-> <<>>, devices |-> <<>>,
             model |-> <<>>, port |-> 0, source |-> NoSource]
NoOp == [op |-> "none", previousStatus |-> "none", doc |-> BlankDoc,
         calls |-> <<>>, threw |-> FALSE, file |-> "noFile"]

\* a request without a hook under way
NoHook == [id |-> 0, todo |-> <<>>, running |-> FALSE]

MaxRequests == 2
Requests == 1..MaxRequests

NoResponse == [status |-> "none", samples |-> <<>>, spawned |-> <<>>,
               validated |-> FALSE]
NoPoll == [route |-> "none", isWindows |-> FALSE, fromRequest |-> FALSE,
           devices |-> <<>>, tools |-> <<>>, gpuData |-> <<>>,
           response |-> NoResponse]

Sources ==
    {cpuUtilization, memoryUtilization, gpuUtilization, npuUtilization,
     gpuMemory, packagePower}

NoPage == [rendered |-> FALSE, showExportButtonCheck |-> FALSE]

NoPower ==
    [handler |-> "none", isWindows |-> FALSE,
     daemon |-> [event |-> "refused", intervalUs |-> Null, joules |-> Null],
     response |-> [status |-> "none"]]

NoDiscovery ==
    [handler |-> "none", tool |-> [event |-> "none", device_list |-> <<>>],
     available_devices |-> <<>>, controllers |-> <<>>,
     response |-> [status |-> "none"]]

\* no tool spawned
NoChild ==
    [route |-> "none", promise |-> [settled |-> "none", value |-> Null],
     resolved |-> FALSE, kills |-> 0, alive |-> FALSE, events |-> <<>>,
     timedOut |-> FALSE]

\* no export asked for
NoDom == [pc |-> "idle", body |-> {}, path |-> "workload", toast |-> FALSE,
          env |-> {}]

RoutesInit ==
    /\ power = NoPower
    /\ discovery = NoDiscovery
    /\ child = NoChild
    /\ dom = NoDom

MonitorsInit ==
    /\ queries = [s \in Sources |-> NewQuery]
    /\ page = NoPage
    /\ RoutesInit

OthersInit ==
    /\ hooks = [r \in Requests |-> NoHook]
    /\ poll = NoPoll
    /\ MonitorsInit

\* the document of a write: the form's fields with the id and the status
DocOf(id, status, fields) ==
    [id |-> id, status |-> status, usecase |-> fields.usecase,
     devices |-> fields.devices, model |-> fields.model, port |-> fields.port,
     source |-> fields.source]

\* what the persistence layer does with an operation whose hook threw:
\* the operation fails, and whether its write is kept or rolled back
\* depends on the database adapter running it in a transaction or not
Kept(threw) == IF threw THEN BOOLEAN ELSE {TRUE}

\* every record write runs the afterChange hook
WriteWorkload(op, id, doc, execFails) ==
    \E previousStatus \in {workloads[id].status} :
        \E hook \in {createWorkloadAfterChange(previousStatus, doc, pm2,
                                               execFails)} :
            /\ \E kept \in Kept(hook.threw) :
                   workloads' = IF kept THEN [workloads EXCEPT ![id] = doc]
                                ELSE workloads
            /\ pm2' = hook.table
            /\ last' = [op |-> op, previousStatus |-> previousStatus,
                        doc |-> doc, calls |-> hook.calls,
                        threw |-> hook.threw, file |-> "noFile"]
            /\ UNCHANGED <<disk, others>>

\* handleAddWorkload: the form creates a record, which gets the next id and
\* the collection's initial status, prepare
CreateWorkload(fields, execFails) ==
    /\ nextId \in Ids
    /\ WriteWorkload("create", nextId, DocOf(nextId, "prepare", fields),
                     execFails)
    /\ nextId' = nextId + 1

\* handleSaveWorkload: the edit form writes its fields with status prepare
SaveWorkload(id, fields, execFails) ==
    /\ workloads[id] # NoDoc
    /\ WriteWorkload("save", id, DocOf(id, "prepare", fields), execFails)
    /\ UNCHANGED nextId

\* onStatusChange: the switch of the workload page, shown for an active or
\* inactive workload, writes inactive, or prepare in place of active
onStatusChange(id, newStatus, execFails) ==
    /\ workloads[id].status \in {"active", "inactive"}
    /\ WriteWorkload("switch", id,
                     [workloads[id] EXCEPT
                          !.status = IF newStatus = "active" THEN "prepare"
                                     ELSE newStatus],
                     execFails)
    /\ UNCHANGED nextId

\* the worker of a workload in preparation reports that it is serving
\* (active) or that it could not (failed), by writing the record's status;
\* the hook of such a write runs no command, so nothing of it can fail
WorkerReport(id, status) ==
    /\ workloads[id].status = "prepare"
    /\ Online(pm2, ToStr(id)) # {}
    /\ WriteWorkload("report", id, [workloads[id] EXCEPT !.status = status],
                     FALSE)
    /\ UNCHANGED nextId

\* a worker process ends by itself; started with --no-autorestart, it
\* stays stopped
WorkerExit(id) ==
    /\ \E p \in Online(pm2, ToStr(id)) :
           pm2' = (pm2 \ {p}) \cup {[p EXCEPT !.status = "stopped"]}
    /\ UNCHANGED <<workloads, nextId, disk, last, others>>

\* deleting a record runs the afterDelete hook
DeleteWorkload(id, execFails) ==
    \E doc \in {workloads[id]} \ {NoDoc} :
        \E hook \in {deleteWorkloadAfterDelete(doc, pm2, disk, execFails)} :
            /\ \E kept \in Kept(hook.threw) :
                   workloads' = IF kept THEN [workloads EXCEPT ![id] = NoDoc]
                                ELSE workloads
            /\ pm2' = hook.table
            /\ disk' = hook.files
            /\ last' = [op |-> "delete", previousStatus |-> "none",
                        doc |-> doc, calls |-> hook.calls,
                        threw |-> hook.threw, file |-> hook.file]
            /\ UNCHANGED <<nextId, others>>

(***************************************************************************)
(* Spec: the lifecycle of workloads without a media source.                *)
(***************************************************************************)
CPU == <<"C", "P", "U">>
GPU == <<"G", "P", "U">>
ModelName == <<"M">>
Ports == {5000, 5001}
FirstPort == CHOOSE p \in Ports : \A q \in Ports : p <= q

LifecycleFields ==
    [usecase : {TextGeneration, TextToImage}, devices : {<<CPU>>},
     model : {ModelName}, port : {FirstPort}, source : {NoSource}]

Init ==
    /\ workloads = [id \in Ids |-> NoDoc]
    /\ nextId = 1
    /\ pm2 = {}
    /\ disk = {}
    /\ last = NoOp
    /\ OthersInit

Next ==
    \/ \E f \in LifecycleFields, e \in BOOLEAN : CreateWorkload(f, e)
    \/ \E id \in Ids, f \in LifecycleFields, e \in BOOLEAN :
           SaveWorkload(id, f, e)
    \/ \E id \in Ids, s \in {"active", "inactive"}, e \in BOOLEAN :
           onStatusChange(id, s, e)
    \/ \E id \in Ids, s \in {"active", "failed"} : WorkerReport(id, s)
    \/ \E id \in Ids : WorkerExit(id)
    \/ \E id \in Ids, e \in BOOLEAN \X BOOLEAN : DeleteWorkload(id, e)

Spec == Init /\ [][Next]_vars

(***************************************************************************)
(* SpecSwitch: the same lifecycle for workloads of one usecase.            *)
(***************************************************************************)
SwitchFields == {f \in LifecycleFields : f.usecase = TextGeneration}

NextSwitch ==
    \/ \E f \in SwitchFields, e \in BOOLEAN : CreateWorkload(f, e)
    \/ \E id \in Ids, f \in SwitchFields, e \in BOOLEAN :
           SaveWorkload(id, f, e)
    \/ \E id \in Ids, s \in {"active", "inactive"}, e \in BOOLEAN :
           onStatusChange(id, s, e)
    \/ \E id \in Ids, s \in {"active", "failed"} : WorkerReport(id, s)
    \/ \E id \in Ids : WorkerExit(id)
    \/ \E id \in Ids, e \in BOOLEAN \X BOOLEAN : DeleteWorkload(id, e)

SpecSwitch == Init /\ [][NextSwitch]_vars

(***************************************************************************)
(* SpecFiles: the last workload, a streaming one with a media source of    *)
(* any name, created and deleted over any content of the disk; nothing is  *)
(* left of the workloads before it.                                        *)
(***************************************************************************)
NameAlphabet == {"a", ".", "/", ";"}

\* the strings over NameAlphabet of length 1..MaxNameLen
SourceNames ==
    UNION {[1..n -> NameAlphabet] : n \in 1..MaxNameLen}

\* two files of the media directory and one file outside it
DiskUniverse ==
    {ASSETS_PATH \o <<SEP, "a">>, ASSETS_PATH \o <<SEP, "a", "a">>,
     <<SEP, "a">>}

FileFields ==
    [usecase : {ObjectDetection}, devices : {<<CPU>>}, model : {ModelName},
     port : {FirstPort},
     source : [type : {"file"}, name : SourceNames]
              \cup {[type |-> "cam", name |-> <<"a">>]}]

InitFiles ==
    /\ workloads = [id \in Ids |-> NoDoc]
    /\ nextId = MaxId
    /\ pm2 = {}
    /\ disk \in SUBSET DiskUniverse
    /\ last = NoOp
    /\ OthersInit

NextFiles ==
    \/ \E f \in FileFields, e \in BOOLEAN : CreateWorkload(f, e)
    \/ \E id \in Ids, e \in BOOLEAN \X BOOLEAN : DeleteWorkload(id, e)

SpecFiles == InitFiles /\ [][NextFiles]_vars

(***************************************************************************)
(* SpecParams: the last workload, over every selection of up to            *)
(* MaxDevices devices (a row may lack its device name), created and        *)
(* deleted; nothing is left of the workloads before it.                    *)
(***************************************************************************)
DeviceNames == {CPU, GPU, <<>>}

DeviceLists == UNION {[1..n -> DeviceNames] : n \in 0..MaxDevices}

ParamFields ==
    [usecase : {TextGeneration, TextToImage}, devices : DeviceLists,
     model : {ModelName}, port : Ports,
     source : {NoSource}]

NextParams ==
    \/ \E f \in ParamFields, e \in BOOLEAN : CreateWorkload(f, e)
    \/ \E id \in Ids, e \in BOOLEAN \X BOOLEAN : DeleteWorkload(id, e)

InitParams ==
    /\ workloads = [id \in Ids |-> NoDoc]
    /\ nextId = MaxId
    /\ pm2 = {}
    /\ disk = {}
    /\ last = NoOp
    /\ OthersInit

SpecParams == InitParams /\ [][NextParams]_vars

(***************************************************************************)
(* SpecSupervisor: the three operations of pm2Lib called directly, in any  *)
(* order, for the names of the workload ids.  last.calls keeps the last    *)
(* two calls.                                                              *)
(***************************************************************************)
LastTwo(calls) ==
    IF Len(calls) > 2 THEN SubSeq(calls, Len(calls) - 1, Len(calls)) ELSE calls

SupervisorCall(id, call, result) ==
    /\ pm2' = result.table
    /\ last' = [NoOp EXCEPT !.op = "supervisor",
                            !.calls = LastTwo(Append(last.calls, call)),
                            !.threw = result.threw]
    /\ UNCHANGED <<workloads, nextId, disk, others>>

StartCall(id, scriptName, execFails) ==
    LET params == IF scriptName = <<>> THEN <<>>
                  ELSE LaunchPlan(DocOf(id, "prepare",
                           [usecase |-> scriptName, devices |-> <<CPU>>,
                            model |-> ModelName, port |-> FirstPort,
                            source |-> NoSource])).params
        r == startPm2Process(ToStr(id), scriptName, params, pm2, execFails)
    IN  SupervisorCall(id, Call("start", ToStr(id), scriptName, params, r), r)

StopCall(id, execFails) ==
    LET r == stopPm2Process(ToStr(id), pm2, execFails)
    IN  SupervisorCall(id, Call("stop", ToStr(id), <<>>, <<>>, r), r)

DeleteCall(id, execFails) ==
    LET r == deletePm2Process(ToStr(id), pm2, execFails)
    IN  SupervisorCall(id, Call("delete", ToStr(id), <<>>, <<>>, r), r)

NextSupervisor ==
    \/ \E id \in Ids, s \in {<<>>, TextGeneration, TextToImage},
          e \in BOOLEAN : StartCall(id, s, e)
    \/ \E id \in Ids, e \in BOOLEAN : StopCall(id, e)
    \/ \E id \in Ids, e \in BOOLEAN : DeleteCall(id, e)
    \/ \E id \in Ids : WorkerExit(id)

SpecSupervisor == Init /\ [][NextSupervisor]_vars

(***************************************************************************)
(* SpecInputs: startPm2Process called with free-form arguments, some of    *)
(* them holding characters outside the classes of its sanitization.        *)
(***************************************************************************)
RawNames == {<<"1">>, <<"1", ";">>}
RawScripts == {<<>>, <<"a">>, <<"a", ";">>, <<"a", " ", "b">>}
RawParams == {<<>>, <<"-", "x">>, <<"-", "x", "|">>}

\* startPm2Process(pm2Name, scriptName, params) as any caller may call it;
\* last.calls keeps this call
RawStartCall(pm2Name, scriptName, params, execFails) ==
    LET r == startPm2Process(pm2Name, scriptName, params, pm2, execFails)
    IN  /\ pm2' = r.table
        /\ last' = [NoOp EXCEPT
                        !.op = "supervisor",
                        !.calls = <<Call("start", pm2Name, scriptName,
                                         params, r)>>,
                        !.threw = r.threw]
        /\ UNCHANGED <<workloads, nextId, disk, others>>

NextInputs ==
    \/ \E n \in RawNames, s \in RawScripts, p \in RawParams, e \in BOOLEAN :
           RawStartCall(n, s, p, e)
    \/ \E id \in Ids, e \in BOOLEAN : DeleteCall(id, e)

SpecInputs == Init /\ [][NextInputs]_vars

(***************************************************************************)
(* SpecConcurrent: requests on the records that the server handles at the  *)
(* same time.  A hook awaits each of its commands, so the commands of one  *)
(* hook run one after the other; the event loop takes up another request   *)
(* while a command is awaited.  The write of a request is in the database  *)
(* when its hook runs, and PM2 carries a command out when it ends.         *)
(***************************************************************************)
\* the commands a hook is about to issue, from the calls it makes
Commands(calls) ==
    [i \in 1..Len(calls) |->
        [op |-> calls[i].op, name |-> calls[i].name,
         script |-> calls[i].script, params |-> calls[i].params]]

\* the hook of a request starts: its commands are still to be issued
StartHook(r, id, commands) ==
    hooks' = IF commands = <<>> THEN hooks
             ELSE [hooks EXCEPT ![r] = [id |-> id, todo |-> commands,
                                        running |-> FALSE]]

\* a record write arrives and its afterChange hook starts
BeginWrite(r, id, doc) ==
    LET previousStatus == workloads[id].status
        hook == createWorkloadAfterChange(previousStatus, doc, pm2, FALSE)
    IN  /\ hooks[r] = NoHook
        /\ workloads' = [workloads EXCEPT ![id] = doc]
        /\ StartHook(r, id, Commands(hook.calls))
        /\ UNCHANGED <<nextId, pm2, disk, last, poll, monitors>>

\* handleSaveWorkload, handled beside other requests
BeginSave(r, id, fields) ==
    /\ workloads[id] # NoDoc
    /\ BeginWrite(r, id, DocOf(id, "prepare", fields))

\* onStatusChange, handled beside other requests
BeginSwitch(r, id, newStatus) ==
    /\ workloads[id].status \in {"active", "inactive"}
    /\ BeginWrite(r, id,
                  [workloads[id] EXCEPT
                       !.status = IF newStatus = "active" THEN "prepare"
                                  ELSE newStatus])

\* a deletion arrives and its afterDelete hook starts: the file handling
\* runs at once, stop and delete are still to be issued
BeginDelete(r, id) ==
    LET doc == workloads[id]
        file == UploadedFile(doc, disk)
        stop == [op |-> "stop", name |-> ToStr(id), script |-> <<>>,
                 params |-> <<>>]
    IN  /\ hooks[r] = NoHook
        /\ doc # NoDoc
        /\ workloads' = [workloads EXCEPT ![id] = NoDoc]
        /\ disk' = file.files
        /\ StartHook(r, id,
                     IF file.returned \/ file.threw THEN <<>>
                     ELSE <<stop, [stop EXCEPT !.op = "delete"]>>)
        /\ UNCHANGED <<nextId, pm2, last, poll, monitors>>

\* runCommand: execAsync starts the command of the hook
BeginCommand(r) ==
    /\ hooks[r].todo # <<>>
    /\ ~hooks[r].running
    /\ hooks' = [hooks EXCEPT ![r].running = TRUE]
    /\ UNCHANGED <<workloads, nextId, pm2, disk, last, poll, monitors>>

\* the wrapper call of a command
Issue(c, table, execFails) ==
    CASE c.op = "start" ->
             startPm2Process(c.name, c.script, c.params, table, execFails)
      [] c.op = "stop" -> stopPm2Process(c.name, table, execFails)
      [] c.op = "delete" -> deletePm2Process(c.name, table, execFails)

\* runCommand: the command ends; when it failed the hook throws and issues
\* nothing more
EndCommand(r, execFails) ==
    LET h == hooks[r]
        result == Issue(Head(h.todo), pm2, execFails)
    IN  /\ h.running
        /\ pm2' = result.table
        /\ hooks' = [hooks EXCEPT
                         ![r] = IF result.threw \/ Len(h.todo) = 1 THEN NoHook
                                ELSE [h EXCEPT !.todo = Tail(h.todo),
                                               !.running = FALSE]]
        /\ UNCHANGED <<workloads, nextId, disk, last, poll, monitors>>

NextConcurrent ==
    \/ \E f \in SwitchFields, e \in BOOLEAN : CreateWorkload(f, e)
    \/ \E id \in Ids, s \in {"active", "failed"} : WorkerReport(id, s)
    \/ \E r \in Requests, id \in Ids, f \in SwitchFields : BeginSave(r, id, f)
    \/ \E r \in Requests, id \in Ids, s \in {"active", "inactive"} :
           BeginSwitch(r, id, s)
    \/ \E r \in Requests, id \in Ids : BeginDelete(r, id)
    \/ \E r \in Requests : BeginCommand(r)
    \/ \E r \in Requests, e \in BOOLEAN : EndCommand(r, e)

SpecConcurrent == Init /\ [][NextConcurrent]_vars

(***************************************************************************)
(* SpecBus: polls of the GPU routes for one device, over the bus addresses *)
(* of up to MaxAddrLen characters of AddrAlphabet and some more.           *)
(***************************************************************************)
MaxAddrLen == 7
AddrAlphabet == {"0", ":", "."}

PCI_00_02_0 == <<"0", "0", ":", "0", "2", ".", "0">>
RM_RF == <<";", " ", "r", "m", " ", "-", "r", "f", " ", "/">>

BusAddresses ==
    UNION {[1..n -> AddrAlphabet] : n \in 0..MaxAddrLen}
    \cup {NullAddr, PCI_00_02_0, RM_RF,
          <<"3", "e", ":", "0", "0", ".", "0">>,
          <<"0", "0", "0", "0", ":">> \o PCI_00_02_0,
          <<"0", "0", "0", ":">> \o PCI_00_02_0,
          PCI_00_02_0 \o <<"\n">>,
          <<"g", "0", ":", "0", "2", ".", "0">>,
          <<"0", "0", ":", "0", "2", ".", "a">>}

Routes == {"gpu-utilization", "gpu-memory"}
GPU_MODEL == <<"A", "r", "c">>

\* a request a GPU route has received
GpuRequest(route, isWindows, fromRequest, devices, tools) ==
    [NoPoll EXCEPT !.route = route, !.isWindows = isWindows,
                   !.fromRequest = fromRequest, !.devices = devices,
                   !.tools = tools, !.response.status = "received"]

\* the route answers the request it received
GpuPoll ==
    /\ poll.response.status = "received"
    /\ poll' = [poll EXCEPT
                    !.gpuData = GpuData(poll.route, poll.fromRequest,
                                        poll.devices),
                    !.response = POST(poll.route, poll.isWindows,
                                      poll.fromRequest, poll.devices,
                                      poll.tools)]
    /\ UNCHANGED <<workloads, nextId, pm2, disk, last, hooks, monitors>>

InitBus ==
    /\ workloads = [id \in Ids |-> NoDoc]
    /\ nextId = 1
    /\ pm2 = {}
    /\ disk = {}
    /\ last = NoOp
    /\ hooks = [r \in Requests |-> NoHook]
    /\ MonitorsInit
    /\ poll \in {GpuRequest(route, w, fromRequest,
                             <<[device |-> GPU_MODEL, busaddr |-> busaddr]>>,
                             <<[event |-> "stdout", value |-> 7]>>) :
                      route \in Routes, w \in BOOLEAN,
                      fromRequest \in BOOLEAN, busaddr \in BusAddresses}

NextBus == GpuPoll

SpecBus == InitBus /\ [][NextBus]_vars

(***************************************************************************)
(* SpecGpu: polls of the GPU routes for up to MaxGpus devices, each with   *)
(* a valid, an invalid or no bus address, over what the tool of each       *)
(* device does.                                                            *)
(***************************************************************************)
MaxGpus == 2

ToolEvents ==
    {[event |-> e, value |-> 0] :
         e \in {"stderr", "stdoutNoMetric", "stdoutBad", "error", "close",
                "hang"}}
    \cup {[event |-> "stdout", value |-> 7]}

\* the devices 1..n, named after their place, with the bus addresses addrs
GpuList(addrs) ==
    [i \in 1..Len(addrs) |->
        [device |-> GPU_MODEL \o ToStr(i), busaddr |-> addrs[i]]]

InitGpu ==
    /\ workloads = [id \in Ids |-> NoDoc]
    /\ nextId = 1
    /\ pm2 = {}
    /\ disk = {}
    /\ last = NoOp
    /\ hooks = [r \in Requests |-> NoHook]
    /\ MonitorsInit
    /\ \E n \in 0..MaxGpus :
           \E addrs \in [1..n -> {PCI_00_02_0, RM_RF, NullAddr}],
              tools \in [1..n -> ToolEvents],
              route \in Routes, w \in BOOLEAN, fromRequest \in BOOLEAN :
               poll = GpuRequest(route, w, fromRequest, GpuList(addrs), tools)

NextGpu == GpuPoll

SpecGpu == InitGpu /\ [][NextGpu]_vars

(***************************************************************************)
(* Properties.                                                             *)
(***************************************************************************)
\* the operations of a sequence of supervisor calls, in order
Ops(calls) == [i \in 1..Len(calls) |-> calls[i].op]

\* this step deletes the record of id
Deleting(id) == workloads[id] # NoDoc /\ workloads'[id] = NoDoc

\* the file of that name in the media directory
MediaFile(name) == ASSETS_PATH \o <<SEP>> \o name

\* the name, taken as a path relative to the media directory, designates
\* nothing inside that directory
PointsOutside(name) ==
    LET target == IF IsAbsolute(name) THEN Normalize(name)
                  ELSE Normalize(ASSETS_PATH \o <<SEP>> \o name)
    IN  ~StartsWith(target, ASSETS_PATH \o <<SEP>>)

\* C1: at most one worker process of a workload id is running, whatever
\* record writes and deletions came before.
AtMostOneWorker ==
    \A id \in Ids : Cardinality(Online(pm2, ToStr(id))) <= 1

\* C2: the hook of a deletion invokes stop on the supervisor and, stop
\* having returned, delete and nothing more, whatever became of the
\* uploaded file.
DeleteInvokesStopThenDelete ==
    last.op = "delete"
    => /\ last.calls # <<>>
       /\ last.calls[1].op = "stop"
       /\ ~last.calls[1].threw => Ops(last.calls) = <<"stop", "delete">>

\* C3: deleting a workload whose source is an uploaded file with an
\* allow-listed name that exists in the media directory removes the file.
DeleteRemovesUploadedFile ==
    [][\A id \in Ids :
           (/\ Deleting(id)
            /\ workloads[id].source.type = "file"
            /\ AllIn(workloads[id].source.name, FileNameChars)
            /\ MediaFile(workloads[id].source.name) \in disk)
           => MediaFile(workloads[id].source.name) \notin disk']_vars

\* C4: deleting a workload whose file source name points outside the media
\* directory deletes no file.
OutsideNameDeletesNothing ==
    [][\A id \in Ids :
           (/\ Deleting(id)
            /\ workloads[id].source.type = "file"
            /\ PointsOutside(workloads[id].source.name))
           => disk' = disk]_vars

\* C4 witness: such a workload was deleted while the file its base name
\* designates in the media directory existed, and the file is still there.
OutsideNameDeleted ==
    /\ last.op = "delete"
    /\ last.doc.source.type = "file"
    /\ Includes(last.doc.source.name, <<".", ".", SEP>>)
    /\ PointsOutside(last.doc.source.name)
    /\ last.file = "segmentRejected"
    /\ workloads[last.doc.id] = NoDoc
    /\ MediaFile(Basename(last.doc.source.name)) \in disk

\* C5: an active workload has a running worker process and an inactive one
\* has none.
StatusReflectsProcess ==
    \A id \in Ids :
        /\ workloads[id].status = "active" => Online(pm2, ToStr(id)) # {}
        /\ workloads[id].status = "inactive" => Online(pm2, ToStr(id)) = {}

\* C6: once the launch of a write into prepare has failed, the workload's
\* status is failed.
LaunchFailureMarksFailed ==
    \A id \in Ids :
        (/\ last.op \in {"create", "save", "switch"}
         /\ last.doc.id = id
         /\ last.doc.status = "prepare"
         /\ last.calls # <<>>
         /\ last.calls[1].threw
         /\ workloads[id] # NoDoc)
        => workloads[id].status = "failed"

\* C7: stop for an id without a registered process, the shell running the
\* command as it should, throws nothing and leaves the process table as
\* it was.
StopUnregisteredIsNoOp ==
    [][\A id \in Ids :
           (Named(pm2, ToStr(id)) = {} /\ StopCall(id, FALSE))
           => (~last'.threw /\ pm2' = pm2)]_vars

\* C8: a write from active to inactive invokes stop for that id once, and
\* nothing else.
DeactivateStopsOnce ==
    (/\ last.op \in {"create", "save", "switch", "report"}
     /\ last.previousStatus = "active"
     /\ last.doc.status = "inactive")
    => /\ Ops(last.calls) = <<"stop">>
       /\ last.calls[1].name = ToStr(last.doc.id)

\* C8 witness: a write from active to inactive has run its hook.
Deactivated ==
    /\ last.op = "switch"
    /\ last.previousStatus = "active"
    /\ last.doc.status = "inactive"
    /\ ~last.threw
    /\ Online(pm2, ToStr(last.doc.id)) = {}

\* C9: a delete that completed leaves no process of that name registered,
\* and a start by name alone while none is registered throws and brings no
\* process of that name to running.
DeleteForgetsProcess ==
    [][\A id \in Ids :
           /\ (DeleteCall(id, FALSE) /\ ~last'.threw)
              => Named(pm2', ToStr(id)) = {}
           /\ (Named(pm2, ToStr(id)) = {}
               /\ \E e \in BOOLEAN : StartCall(id, <<>>, e))
              => (last'.threw /\ Online(pm2', ToStr(id)) = {})]_vars

\* C9 witness: a delete of a registered process completed, the start by
\* name that followed it threw, and no process of the name is registered.
ResumedAfterDelete ==
    /\ Len(last.calls) = 2
    /\ last.calls[1].op = "delete" /\ ~last.calls[1].threw
    /\ last.calls[2].op = "start" /\ last.calls[2].script = <<>>
    /\ last.calls[2].name = last.calls[1].name
    /\ ~last.calls[2].execFailed /\ last.calls[2].threw
    /\ Named(pm2, last.calls[2].name) = {}

RECURSIVE CommaJoined(_)
\* the names separated by commas, in their order
CommaJoined(names) ==
    IF names = <<>> THEN <<>>
    ELSE IF Len(names) = 1 THEN names[1]
         ELSE CommaJoined(SubSeq(names, 1, Len(names) - 1))
              \o <<",">> \o names[Len(names)]

\* --device D --model M --port P --id I, D with AUTO: before several devices
ExpectedParams(doc) ==
    <<"-", "-", "d", "e", "v", "i", "c", "e", " ">>
    \o (IF Len(doc.devices) > 1 THEN <<"A", "U", "T", "O", ":">> ELSE <<>>)
    \o CommaJoined(doc.devices)
    \o <<" ", "-", "-", "m", "o", "d", "e", "l", " ">> \o doc.model
    \o <<" ", "-", "-", "p", "o", "r", "t", " ">> \o ToStr(doc.port)
    \o <<" ", "-", "-", "i", "d", " ">> \o ToStr(doc.id)

\* C10: a write into prepare of a workload whose device rows all name a
\* device starts the worker with exactly these parameters (a streaming
\* workload's parameters begin with them).
LaunchArguments ==
    (/\ last.op \in {"create", "save", "switch", "report"}
     /\ last.doc.status = "prepare"
     /\ \A i \in 1..Len(last.doc.devices) : last.doc.devices[i] # <<>>)
    => /\ Ops(last.calls) = <<"start">>
       /\ StartsWith(last.calls[1].params, ExpectedParams(last.doc))
       /\ ~Includes(last.doc.usecase, DLSTREAMER_MARK)
          => last.calls[1].params = ExpectedParams(last.doc)

\* C10 witness: a workload on CPU and GPU, in that order, was launched with
\* --device AUTO:CPU,GPU --model M --port 5000 --id 1.
LaunchedOnTwoDevices ==
    /\ last.op \in {"create", "save"}
    /\ last.doc.status = "prepare"
    /\ last.doc.devices = <<CPU, GPU>>
    /\ last.calls[1].params =
           <<"-", "-", "d", "e", "v", "i", "c", "e", " ", "A", "U",
             "T", "O", ":", "C", "P", "U", ",", "G", "P", "U", " ",
             "-", "-", "m", "o", "d", "e", "l", " ", "M", " ", "-",
             "-", "p", "o", "r", "t", " ", "5", "0", "0", "0", " ",
             "-", "-", "i", "d", " ", "1">>

\* the three arguments hold only characters of the allow-lists
AllowListed(pm2Name, scriptName, params) ==
    /\ \A i \in 1..Len(pm2Name) : pm2Name[i] \in NameChars
    /\ \A i \in 1..Len(scriptName) : scriptName[i] \in NameChars
    /\ \A i \in 1..Len(params) : params[i] \in ParamChars

\* C11: a start whose id, script name or arguments hold a character outside
\* the allow-list fails and leaves the process table as it was.
StartRejectsDisallowed ==
    [][\A n \in RawNames, s \in RawScripts, p \in RawParams, e \in BOOLEAN :
           (RawStartCall(n, s, p, e) /\ ~AllowListed(n, s, p))
           => (last'.threw /\ pm2' = pm2)]_vars

\* C12: no two commands for the same workload id are running at once.
CommandsSerialized ==
    \A r1, r2 \in Requests :
        (r1 # r2 /\ hooks[r1].running /\ hooks[r2].running)
        => hooks[r1].id # hooks[r2].id

\* a poll has been answered (or is left without an answer)
Answered == poll.response.status \in {"200", "500", "pending"}

\* the tool was spawned for device i of the poll
SpawnedFor(i) ==
    \E k \in 1..Len(poll.response.spawned) : poll.response.spawned[k] = i

\* hex-pair:hex-pair.digit, optionally behind a domain of four hex digits
\* and a colon
HexPairAddress(s) ==
    LET n == Len(s)
        hex(c) == c \in Digits \cup {"a", "b", "c", "d", "e", "f",
                                     "A", "B", "C", "D", "E", "F"}
        domain == SubSeq(s, 1, n - 7)
    IN  /\ s # NullAddr
        /\ n >= 7
        /\ hex(s[n - 6]) /\ hex(s[n - 5]) /\ s[n - 4] = ":"
        /\ hex(s[n - 3]) /\ hex(s[n - 2]) /\ s[n - 1] = "."
        /\ s[n] \in {"0", "1", "2", "3", "4", "5", "6", "7", "8", "9"}
        /\ \/ domain = <<>>
           \/ /\ Len(domain) = 5 /\ domain[5] = ":"
              /\ \A i \in 1..4 : hex(domain[i])

\* the tools of the devices spawned for all gave a result
NoToolFailed ==
    \A i \in 1..Len(poll.gpuData) :
        SpawnedFor(i)
        => poll.tools[i].event \in {"stdout", "stdoutNoMetric", "stderr",
                                    "close"}

SampleValueOrError ==
    Answered
    => \A k \in 1..Len(poll.response.samples) :
           (poll.response.samples[k].value # Null)
           # (poll.response.samples[k].error # NoError)

\* the tool of device i was spawned and failed: spawn error or output that
\* does not parse
ToolFailedFor(i) ==
    SpawnedFor(i) /\ poll.tools[i].event \in {"error", "stdoutBad"}

\* C15: when the tool of one device fails, the response still holds the
\* sample of every other device whose tool gave its value.
OtherDevicesKept ==
    \A i, j \in 1..Len(poll.gpuData) :
        (/\ Answered
         /\ ToolFailedFor(i)
         /\ j # i /\ SpawnedFor(j) /\ poll.tools[j].event = "stdout")
        => \E k \in 1..Len(poll.response.samples) :
               /\ poll.response.samples[k].device = poll.gpuData[j].device
               /\ poll.response.samples[k].value = poll.tools[j].value

(***************************************************************************)
(* SpecPoll: the polling of the metric sources by the monitoring hooks.    *)
(* The sidebar and the workload page both call the hooks, so a query has   *)
(* up to MaxObservers observers, each with its own interval timer.         *)
(***************************************************************************)
MaxObservers == 2
MaxAbandoned == 1

\* the sources polled here: one hook without a timeout, and the GPU hook
Polled == {cpuUtilization, gpuUtilization}

\* what a request can come back with: a response that is ok, one that is
\* not, or no response (the connection failed)
Outcomes == {"ok", "notOk", "failed"}

\* the requests of a source that are out
InFlight(query) ==
    query.abandoned + (IF query.attempt = "request" THEN 1 ELSE 0)

\* a component that calls the hook of s is mounted
Mount(s) ==
    /\ queries[s].observers < MaxObservers
    /\ queries' = [queries EXCEPT
                      ![s] = fetch([@ EXCEPT !.observers = @ + 1], FALSE)]
    /\ UNCHANGED <<workloads, nextId, pm2, disk, last, hooks, poll, page,
                 routes>>

\* the interval timer of an observer of s fires
Interval(s) ==
    /\ queries[s].observers > 0
    /\ refetchInterval(queries[s]) # 0
    /\ queries' = [queries EXCEPT ![s] = fetch(@, FALSE)]
    /\ UNCHANGED <<workloads, nextId, pm2, disk, last, hooks, poll, page,
                 routes>>

\* the request of the fetch under way comes back
Respond(s, outcome) ==
    /\ queries[s].attempt = "request"
    /\ queries' = [queries EXCEPT
                      ![s] = CASE outcome = "ok" -> Succeed(@)
                               [] outcome = "notOk" -> Fail(@, NOT_OK)
                               [] OTHER -> Fail(@, FAILED_TO_FETCH)]
    /\ UNCHANGED <<workloads, nextId, pm2, disk, last, hooks, poll, page,
                 routes>>

\* the wait before a retry is over: the query function is called again
RetryTimer(s) ==
    /\ queries[s].attempt = "wait"
    /\ queries' = [queries EXCEPT ![s].attempt = "request"]
    /\ UNCHANGED <<workloads, nextId, pm2, disk, last, hooks, poll, page,
                 routes>>

\* the 3000 ms timer of the GPU hook fires before its request came back
Timeout(s) ==
    /\ s = gpuUtilization
    /\ queries[s].attempt = "request"
    /\ queries' = [queries EXCEPT ![s] = Abort(@)]
    /\ UNCHANGED <<workloads, nextId, pm2, disk, last, hooks, poll, page,
                 routes>>

\* Retry is clicked on the chart of s
Refetch(s) ==
    /\ queries[s].observers > 0
    /\ RetryOffered(queries[s])
    /\ queries[s].abandoned < MaxAbandoned
    /\ queries' = [queries EXCEPT ![s] = fetch(@, TRUE)]
    /\ UNCHANGED <<workloads, nextId, pm2, disk, last, hooks, poll, page,
                 routes>>

\* a request of a cancelled fetch comes back, or is aborted by its timer:
\* nothing reads its result
AbandonedEnds(s) ==
    /\ queries[s].abandoned > 0
    /\ queries' = [queries EXCEPT ![s].abandoned = @ - 1]
    /\ UNCHANGED <<workloads, nextId, pm2, disk, last, hooks, poll, page,
                 routes>>

NextPoll ==
    \E s \in Polled :
        \/ Mount(s)
        \/ Interval(s)
        \/ \E outcome \in Outcomes : Respond(s, outcome)
        \/ RetryTimer(s)
        \/ Timeout(s)
        \/ Refetch(s)
        \/ AbandonedEnds(s)

SpecPoll == Init /\ [][NextPoll]_vars

\* C16: no source has more than one poll request in flight.
OnePollInFlight ==
    \A s \in Polled : InFlight(queries[s]) <= 1

(***************************************************************************)
(* SpecHang: the polling left to itself (nobody clicks Retry), where a     *)
(* request may never come back: no fairness is asked of Respond.  The      *)
(* timers of the browser do fire: the timeout of the GPU hook and the wait *)
(* before a retry.                                                         *)
(***************************************************************************)
NextHang ==
    \E s \in Polled :
        \/ Mount(s)
        \/ Interval(s)
        \/ \E outcome \in Outcomes : Respond(s, outcome)
        \/ RetryTimer(s)
        \/ Timeout(s)

SpecHang ==
    /\ Init
    /\ [][NextHang]_vars
    /\ WF_vars(Timeout(gpuUtilization))
    /\ WF_vars(RetryTimer(gpuUtilization))

Loading == fetch([NewQuery EXCEPT !.observers = 1], FALSE)
Loaded == Succeed(Loading)
Failed ==
    [Loading EXCEPT !.status = "error", !.error = NOT_OK,
                    !.fetchStatus = "idle", !.failureCount = 3,
                    !.attempt = "none"]

useChartErrors(q) ==
    [hasErrors |-> \/ q[cpuUtilization].error # NoError
                   \/ q[memoryUtilization].error # NoError
                   \/ q[gpuUtilization].error # NoError
                   \/ q[npuUtilization].error # NoError
                   \/ q[gpuMemory].error # NoError,
     isLoading |-> \/ isLoading(q[cpuUtilization])
                   \/ isLoading(q[memoryUtilization])
                   \/ isLoading(q[gpuUtilization])
                   \/ isLoading(q[npuUtilization])
                   \/ isLoading(q[gpuMemory])]

\* the page of a workload that is found and neither in preparation nor
\* failed is rendered
WorkloadPage ==
    /\ ~page.rendered
    /\ LET chartErrors == useChartErrors(queries)
       IN  page' = [rendered |-> TRUE,
                    showExportButtonCheck |->
                        ~chartErrors.hasErrors /\ ~chartErrors.isLoading]
    /\ UNCHANGED <<workloads, nextId, pm2, disk, last, hooks, poll, queries,
                 routes>>

InitExport ==
    /\ workloads = [id \in Ids |-> NoDoc]
    /\ nextId = 1
    /\ pm2 = {}
    /\ disk = {}
    /\ last = NoOp
    /\ hooks = [r \in Requests |-> NoHook]
    /\ poll = NoPoll
    /\ queries \in [Sources -> {Loading, Loaded, Failed}]
    /\ page = NoPage
    /\ RoutesInit

NextExport == WorkloadPage

SpecExport == InitExport /\ [][NextExport]_vars

\* C18: the page offers the export only when none of the six metric
\* sources is loading and none is in error.
ExportOnlyWhenSettled ==
    (page.rendered /\ page.showExportButtonCheck)
    => \A s \in Sources :
           ~isLoading(queries[s]) /\ queries[s].error = NoError

(***************************************************************************)
(* SpecRoutes: one request to a power route and one GPU discovery, over    *)
(* the platforms, what the daemon and the vendor tool do, and the devices  *)
(* that OpenVINO and si.graphics() list.                                   *)
(***************************************************************************)
ARC_NAME == <<"I", "n", "t", "e", "l", " ", "A", "r", "c">>
GPU_0 == <<"G", "P", "U", ".", "0">>

\* what the vendor tool does
XpumTools ==
    {[event |-> e, device_list |-> <<>>] :
         e \in {"stdout", "stdoutBad", "stderr", "error", "silent"}}
    \cup {[event |-> "stdout",
           device_list |-> <<[device_name |-> ARC_NAME,
                              pci_bdf_address |-> PCI_00_02_0]>>]}

\* the controllers of si.graphics(): none, one, or one without bus address
Controllers ==
    {<<>>, <<[model |-> GPU_MODEL, busAddress |-> PCI_00_02_0]>>,
     <<[model |-> GPU_MODEL, busAddress |-> NullAddr]>>}

\* the devices OpenVINO lists
AvailableDevices == {<<>>, <<CPU>>, <<CPU, GPU>>, <<CPU, GPU_0>>}

FullNames == [d \in {GPU, GPU_0} |-> ARC_NAME]

\* the power route answers the request it received
PowerPoll ==
    /\ power.response.status = "received"
    /\ power' = [power EXCEPT
                     !.response = PowerGET(power.handler, power.isWindows,
                                           power.daemon)]
    /\ UNCHANGED <<workloads, nextId, pm2, disk, last, hooks, poll, queries,
                   page, discovery, child, dom>>

\* the discovery asked for is made
Discover ==
    /\ discovery.response.status = "received"
    /\ discovery' =
           [discovery EXCEPT
               !.response =
                   CASE discovery.handler = XPUM -> xpumGET(discovery.tool)
                     [] discovery.handler = GRAPHICS ->
                            graphicsGET(discovery.controllers)
                     [] OTHER ->
                            [status |-> "200",
                             gpus |-> getGPUInfo(discovery.available_devices,
                                                 FullNames,
                                                 discovery.controllers),
                             error |-> NoError]]
    /\ UNCHANGED <<workloads, nextId, pm2, disk, last, hooks, poll, queries,
                   page, power, child, dom>>

InitRoutes ==
    /\ workloads = [id \in Ids |-> NoDoc]
    /\ nextId = 1
    /\ pm2 = {}
    /\ disk = {}
    /\ last = NoOp
    /\ hooks = [r \in Requests |-> NoHook]
    /\ poll = NoPoll
    /\ queries = [s \in Sources |-> NewQuery]
    /\ page = NoPage
    /\ child = NoChild
    /\ dom = NoDom
    /\ \E handler \in PowerHandlers, isWindows \in BOOLEAN, daemon \in Daemons :
           power = [handler |-> handler, isWindows |-> isWindows,
                    daemon |-> daemon, response |-> [status |-> "received"]]
    /\ \E handler \in DiscoveryHandlers, tool \in XpumTools,
          available_devices \in AvailableDevices,
          controllers \in Controllers :
           discovery = [handler |-> handler, tool |-> tool,
                        available_devices |-> available_devices,
                        controllers |-> controllers,
                        response |-> [status |-> "received"]]

NextRoutes == PowerPoll \/ Discover

SpecRoutes == InitRoutes /\ [][NextRoutes]_vars

\* C19: on a platform without the daemon (Windows), a power route answers
\* 200 with intervalUs and joulesConsumed null, and has not called the
\* daemon.
PowerNullWithoutDaemon ==
    (power.response.status \notin {"none", "received"} /\ power.isWindows)
    => /\ power.response.status = "200"
       /\ power.response.intervalUs = Null
       /\ power.response.joulesConsumed = Null
       /\ ~power.response.called

\* the vendor tool of the discovery is unavailable or fails
VendorToolFails == discovery.tool.event \in {"error", "stderr", "stdoutBad"}

\* C20: a discovery always succeeds; with a vendor tool that is unavailable
\* or fails it gives the devices of the hardware inventory, an empty list
\* when there are none.
DiscoveryNeverFails ==
    discovery.response.status \in {"200", "500"}
    => /\ discovery.response.status = "200"
       /\ (discovery.handler = XPUM /\ VendorToolFails)
          => discovery.response.gpus
                 = graphicsGET(discovery.controllers).gpus

(***************************************************************************)
(* SpecStreaming: the last workload, created with or without a streaming   *)
(* usecase and with a file, predefined or camera source of any name (or no *)
(* source), on either port, and deleted.                                   *)
(***************************************************************************)
SourceTypes == {"file", "predefined", "cam"}

\* a plain name, a name in a folder, a name that leaves the media directory,
\* and a name with a character the shell would read
StreamNames ==
    {<<"a">>, <<"a", "/", "a">>, <<".", ".", "/", "a">>, <<"a", ";">>}

StreamFields ==
    [usecase : {ObjectDetection, TextGeneration}, devices : {<<CPU>>},
     model : {ModelName}, port : Ports,
     source : [type : SourceTypes, name : StreamNames] \cup {NoSource}]

NextStreaming ==
    \/ \E f \in StreamFields, e \in BOOLEAN : CreateWorkload(f, e)
    \/ \E id \in Ids, e \in BOOLEAN \X BOOLEAN : DeleteWorkload(id, e)

SpecStreaming == InitParams /\ [][NextStreaming]_vars

\* the value --input is expected to have: the source's name under the media
\* directory (resolved as a path), or the bare name of a camera
ExpectedInput(source) ==
    IF source.type = "cam" THEN source.name
    ELSE Normalize(ASSETS_PATH \o <<SEP>> \o source.name)

\* C21: a write into prepare of a workload with a streaming usecase and a
\* named source starts script dlstreamer, and its parameters are the common
\* ones followed by --tcp_port port+1000 and --input with the media
\* directory path of the name (file, predefined) or the bare name (camera).
StreamingLaunch ==
    (/\ last.op \in {"create", "save", "switch", "report"}
     /\ last.doc.status = "prepare"
     /\ Includes(last.doc.usecase,
                 <<"(", "D", "L", "S", "t", "r", "e", "a", "m", "e", "r">>)
     /\ last.doc.source.name # <<>>)
    => /\ Ops(last.calls) = <<"start">>
       /\ last.calls[1].script
              = <<"d", "l", "s", "t", "r", "e", "a", "m", "e", "r">>
       /\ last.calls[1].params
              = ExpectedParams(last.doc)
                \o <<" ", "-", "-", "t", "c", "p", "_", "p", "o", "r", "t", " ">>
                \o ToStr(last.doc.port + 1000)
                \o <<" ", "-", "-", "i", "n", "p", "u", "t", " ">>
                \o ExpectedInput(last.doc.source)

\* C21 witness: a streaming workload on camera a, port 5001, was launched
\* with --tcp_port 6001 --input a.
CameraStreamLaunched ==
    /\ last.op = "create"
    /\ last.doc.usecase = ObjectDetection
    /\ last.doc.source = [type |-> "cam", name |-> <<"a">>]
    /\ last.doc.port = 5001
    /\ last.calls[1].script = DLSTREAMER_SCRIPT
    /\ last.calls[1].params
           = ExpectedParams(last.doc)
             \o <<" ", "-", "-", "t", "c", "p", "_", "p", "o", "r", "t", " ",
                  "6", "0", "0", "1", " ", "-", "-", "i", "n", "p", "u", "t",
                  " ", "a">>

(***************************************************************************)
(* SpecWrites: the records written through the collection by any client,   *)
(* with any status; every such write runs the afterChange hook.            *)
(***************************************************************************)
\* an update of a record that sets its status (the rest of the document is
\* kept)
UpdateWorkload(id, status, execFails) ==
    /\ workloads[id] # NoDoc
    /\ WriteWorkload("update", id, [workloads[id] EXCEPT !.status = status],
                     execFails)
    /\ UNCHANGED nextId

NextWrites ==
    \/ \E f \in SwitchFields, e \in BOOLEAN : CreateWorkload(f, e)
    \/ \E id \in Ids, s \in Statuses, e \in BOOLEAN : UpdateWorkload(id, s, e)
    \/ \E id \in Ids : WorkerExit(id)
    \/ \E id \in Ids, e \in BOOLEAN \X BOOLEAN : DeleteWorkload(id, e)

SpecWrites == Init /\ [][NextWrites]_vars

\* the processes of the table, those of the name set online
Resumed(table, name) ==
    {[p EXCEPT !.status = IF p.name = name THEN "online" ELSE @] : p \in table}

\* C22: a write that takes a record from inactive to active makes exactly one
\* supervisor call, start with the record's id as the name and neither script
\* nor parameters; when the call succeeds a process of that name existed and
\* the processes of that name are online with the script and parameters they
\* had, and when it fails the table is as before.  No stop, no delete.
ResumeByName ==
    [][\A id \in Ids, e \in BOOLEAN :
           (workloads[id].status = "inactive" /\ UpdateWorkload(id, "active", e))
           => /\ Ops(last'.calls) = <<"start">>
              /\ last'.calls[1].name = ToStr(id)
              /\ last'.calls[1].script = <<>>
              /\ last'.calls[1].params = <<>>
              /\ IF last'.threw THEN pm2' = pm2
                 ELSE /\ \E p \in pm2 : p.name = ToStr(id)
                      /\ pm2' = Resumed(pm2, ToStr(id))]_vars

\* C22 witness: the stopped worker of workload 1 was resumed by a write from
\* inactive to active.
WorkerResumed ==
    /\ last.op = "update"
    /\ last.previousStatus = "inactive"
    /\ last.doc.status = "active"
    /\ Ops(last.calls) = <<"start">>
    /\ ~last.threw
    /\ workloads[1].status = "active"
    /\ \E p \in pm2 : p.name = ToStr(1) /\ p.status = "online"

\* the pairs of statuses whose write runs a supervisor command
Commanded(previousStatus, status) ==
    \/ previousStatus = "active" /\ status = "inactive"
    \/ previousStatus = "inactive" /\ status = "active"
    \/ status = "prepare"

\* C23: a record write makes at most one supervisor call, and a write whose
\* pair of statuses is none of active->inactive, inactive->active and
\* any->prepare makes none and leaves the process table as it was.
WriteFrame ==
    [][/\ \A f \in SwitchFields, e \in BOOLEAN :
              CreateWorkload(f, e) => Len(last'.calls) <= 1
       /\ \A id \in Ids, s \in Statuses, e \in BOOLEAN :
              UpdateWorkload(id, s, e)
              => /\ Len(last'.calls) <= 1
                 /\ ~Commanded(workloads[id].status, s)
                    => last'.calls = <<>> /\ pm2' = pm2]_vars

\* C23 witness: the worker of workload 1 reported active from prepare, no
\* command was run and its process is online as launched.
ActiveWrittenWithoutCommand ==
    /\ last.op = "update"
    /\ last.previousStatus = "prepare"
    /\ last.doc.status = "active"
    /\ last.calls = <<>>
    /\ \E p \in pm2 : p.name = ToStr(1) /\ p.status = "online"

(***************************************************************************)
(* The polling after a failure.                                            *)
(***************************************************************************)
\* C24: after a poll of a source has ended in error, the interval timer of
\* a mounted observer is still set, so the next tick starts the next poll.
PollingSurvivesError ==
    \A s \in Polled :
        (/\ queries[s].observers > 0
         /\ queries[s].status = "error"
         /\ queries[s].fetchStatus = "idle")
        => ENABLED Interval(s)

\* C25: a fetch is retried only while fewer than 3 of its attempts have
\* failed in a row: once 3 have, no retry waits or is out, and the query
\* reports the error.
GivesUpAtThree ==
    \A s \in Polled :
        queries[s].failureCount >= 3
        => /\ queries[s].attempt = "none"
           /\ queries[s].status = "error"

(***************************************************************************)
(* SpecDiscovery: the requests of SpecRoutes, each of which the server     *)
(* does take up: the handler of a request that was received runs.          *)
(***************************************************************************)
SpecDiscovery ==
    /\ InitRoutes
    /\ [][NextRoutes]_vars
    /\ WF_vars(Discover)
    /\ WF_vars(PowerPoll)

\* C29: a discovery request to the vendor-tool route is answered, whether
\* the tool writes its list to stdout, writes to stderr, cannot be spawned
\* or ends without any output: a response with status 200 or 500 is
\* returned.
DiscoveryCompletes ==
    (/\ discovery.handler = XPUM
     /\ discovery.tool.event \in {"stdout", "stderr", "error", "silent"}
     /\ discovery.response.status = "received")
        ~> (discovery.response.status \in {"200", "500"})

(***************************************************************************)
(* The samples of a tool that fails.                                       *)
(***************************************************************************)
\* C28: when the tool spawned for a device writes to stderr, or ends
\* without output that can be parsed, the sample of that device in the
\* response carries an error and no numeric value.
ToolFailureIsErrorSample ==
    poll.response.status = "200"
    => \A k \in 1..Len(poll.response.spawned) :
           LET i == poll.response.spawned[k]
           IN  poll.tools[i].event \in {"stderr", "close"}
               => \E j \in 1..Len(poll.response.samples) :
                      /\ poll.response.samples[j].device
                             = poll.gpuData[i].device
                      /\ poll.response.samples[j].error # NoError
                      /\ poll.response.samples[j].value = Null

(***************************************************************************)
(* SpecSample: the promise of one spawned tool (getGpuUtilizationLinux of  *)
(* gpu-utilization, getMemoryUtilization of gpu-memory) over the events of *)
(* the child process in any order, up to MaxEvents of them; after close    *)
(* the process emits nothing more.  The hook that polls gpu-utilization    *)
(* aborts its request when its timer fires.                                *)
(***************************************************************************)
MaxEvents == 3

\* what the child process can emit
SampleEvents == {t \in ToolEvents : t.event # "hang"}

\* resolve and reject of the promise: a settled promise stays as it is
resolve(c, value) ==
    IF c.promise.settled = "pending"
    THEN [c EXCEPT !.promise = [settled |-> "resolved", value |-> value]]
    ELSE c

reject(c) ==
    IF c.promise.settled = "pending"
    THEN [c EXCEPT !.promise = [settled |-> "rejected", value |-> Null]]
    ELSE c

\* process.kill()
kill(c) ==
    [c EXCEPT !.alive = FALSE,
              !.kills = IF @ < MaxEvents THEN @ + 1 ELSE @]

\* the flag of getGpuUtilizationLinux is set; getMemoryUtilization has none
Settled(c) == c.route = "gpu-utilization" /\ c.resolved

\* a slip in the stderr listener: the promise is resolved and the process
\* is left running
onStderrKeeping(c) ==
    IF Settled(c) THEN c
    ELSE resolve([c EXCEPT !.resolved = TRUE], 0)

\* process.stderr.on('data')
onStderr(c) ==
    IF Settled(c) THEN c
    ELSE kill(resolve([c EXCEPT !.resolved = TRUE], 0))

\* process.stdout.on('data'): the data is parsed and the value read, or the
\* parsing throws
onStdout(c, data) ==
    IF Settled(c) THEN c
    ELSE IF data.event = "stdoutBad"
    THEN kill(reject([c EXCEPT !.resolved = TRUE]))
    ELSE kill(resolve([c EXCEPT !.resolved = TRUE],
                      IF data.event = "stdout" THEN data.value
                      ELSE IF c.route = "gpu-utilization" THEN 0 ELSE Null))

\* process.on('error')
onError(c) ==
    IF Settled(c) THEN c
    ELSE kill(reject([c EXCEPT !.resolved = TRUE]))

\* process.on('close'): the process has ended
onClose(c) ==
    IF Settled(c) THEN [c EXCEPT !.alive = FALSE]
    ELSE [resolve([c EXCEPT !.resolved = TRUE], 0) EXCEPT !.alive = FALSE]

\* the child process emits an event and its listener runs
Emit(e) ==
    /\ child.promise.settled # "none"
    /\ Len(child.events) < MaxEvents
    /\ \A i \in 1..Len(child.events) : child.events[i].event # "close"
    /\ \E c \in {[child EXCEPT !.events = Append(@, e)]} :
           child' = CASE e.event = "stderr" -> onStderr(c)
                      [] e.event = "error" -> onError(c)
                      [] e.event = "close" -> onClose(c)
                      [] OTHER -> onStdout(c, e)
    /\ UNCHANGED <<workloads, nextId, pm2, disk, last, hooks, poll, queries,
                   page, power, discovery, dom>>

\* the 3000 ms timer of useGpuUtilization fires before the route answered:
\* controller.abort() ends the request of the browser; the route has no
\* listener for that and no timer of its own
AbortPoll ==
    /\ child.route = "gpu-utilization"
    /\ child.promise.settled = "pending"
    /\ ~child.timedOut
    /\ child' = [child EXCEPT !.timedOut = TRUE]
    /\ UNCHANGED <<workloads, nextId, pm2, disk, last, hooks, poll, queries,
                   page, power, discovery, dom>>

InitSample ==
    /\ workloads = [id \in Ids |-> NoDoc]
    /\ nextId = 1
    /\ pm2 = {}
    /\ disk = {}
    /\ last = NoOp
    /\ hooks = [r \in Requests |-> NoHook]
    /\ poll = NoPoll
    /\ queries = [s \in Sources |-> NewQuery]
    /\ page = NoPage
    /\ power = NoPower
    /\ discovery = NoDiscovery
    /\ dom = NoDom
    /\ \E route \in Routes :
           child = [NoChild EXCEPT !.route = route, !.alive = TRUE,
                                   !.promise.settled = "pending"]

NextSample ==
    \/ \E e \in SampleEvents : Emit(e)
    \/ AbortPoll

SpecSample == InitSample /\ [][NextSample]_vars

\* C26: in every order of the events of the child process the promise of
\* the sample is settled by the first event, with that event's outcome;
\* once settled it does not change; and when the first event is data on
\* stdout or stderr or an error, the process has been killed.
SettlesOnceByFirstEvent ==
    /\ [](child.events # <<>>
          => /\ child.promise = ToolPromise(child.route, child.events[1])
             /\ child.events[1].event # "close"
                => (child.kills >= 1 /\ ~child.alive))
    /\ [](child.events = <<>> => child.promise.settled \in {"none", "pending"})
    /\ [][child.promise.settled \in {"resolved", "rejected"}
          => child'.promise = child.promise]_vars

\* C26 witness: the tool of gpu-memory gave its value on stdout, then an
\* error and the close came; the promise holds the value.
SettledBeforeLaterEvents ==
    /\ child.route = "gpu-memory"
    /\ Len(child.events) = 3
    /\ child.events[1] = [event |-> "stdout", value |-> 7]
    /\ child.events[2].event = "error"
    /\ child.events[3].event = "close"
    /\ child.promise = [settled |-> "resolved", value |-> 7]
    /\ child.kills >= 1

\* C27: once the timer of a poll has fired, the tool spawned for it is not
\* running any more.
KilledOnTimeout ==
    child.timedOut => ~child.alive

(***************************************************************************)
(* SpecPdf: one export of the workload page to PDF.  The document's body   *)
(* holds the overlay and the off-screen container while they are attached. *)
(* What can go wrong is drawn at the start: the sidebar is not found, the  *)
(* workload or the system information is not rendered, html2canvas rejects *)
(* one of the three captures, the PDF cannot be made.                      *)
(***************************************************************************)
LOADING == "export-indicator"
TEMP_CONTAINER == "tempContainer"

Faults ==
    {"sidebarNotFound", "sidebarCanvas", "workloadNotRendered",
     "workloadCanvas", "systemInfoNotRendered", "systemInfoCanvas", "pdf"}

\* catch (err): the toast, and the router goes back to the workload page
Catch(d) == [d EXCEPT !.toast = TRUE, !.path = "workload"]

\* finally: the container is removed when the body contains it
Finally(d) == [d EXCEPT !.body = @ \ {TEMP_CONTAINER}, !.pc = "finished"]

\* a step of the try block: it throws on one of its faults, or the export
\* goes on with the next step
Step(d, faults, next) ==
    IF d.env \cap faults # {} THEN Finally(Catch(d))
    ELSE [d EXCEPT !.pc = next]

\* the export is asked for: the overlay and the container are attached
exportWorkloadToPDF ==
    /\ dom.pc = "idle"
    /\ dom' = [dom EXCEPT !.body = @ \cup {LOADING, TEMP_CONTAINER},
                          !.pc = "captureSystemMonitorSidebar"]
    /\ UNCHANGED <<workloads, nextId, pm2, disk, last, hooks, poll, queries,
                   page, power, discovery, child>>

captureSystemMonitorSidebar ==
    /\ dom.pc = "captureSystemMonitorSidebar"
    /\ dom' = Step(dom, {"sidebarNotFound", "sidebarCanvas"},
                   "captureWorkload")
    /\ UNCHANGED <<workloads, nextId, pm2, disk, last, hooks, poll, queries,
                   page, power, discovery, child>>

captureWorkload ==
    /\ dom.pc = "captureWorkload"
    /\ dom' = Step(dom, {"workloadNotRendered", "workloadCanvas"},
                   "captureSystemInfo")
    /\ UNCHANGED <<workloads, nextId, pm2, disk, last, hooks, poll, queries,
                   page, power, discovery, child>>

\* the router goes to the system information page and, the capture made,
\* back to the workload page
captureSystemInfo ==
    /\ dom.pc = "captureSystemInfo"
    /\ dom' = Step([dom EXCEPT !.path = "system"],
                   {"systemInfoNotRendered", "systemInfoCanvas"},
                   "generatePDF")
    /\ UNCHANGED <<workloads, nextId, pm2, disk, last, hooks, poll, queries,
                   page, power, discovery, child>>

\* the PDF is made and saved, the overlay is removed, and finally runs
generatePDF ==
    /\ dom.pc = "generatePDF"
    /\ dom' = IF "pdf" \in dom.env THEN Finally(Catch(dom))
              ELSE Finally([dom EXCEPT !.body = @ \ {LOADING},
                                       !.path = "workload"])
    /\ UNCHANGED <<workloads, nextId, pm2, disk, last, hooks, poll, queries,
                   page, power, discovery, child>>

InitPdf ==
    /\ workloads = [id \in Ids |-> NoDoc]
    /\ nextId = 1
    /\ pm2 = {}
    /\ disk = {}
    /\ last = NoOp
    /\ hooks = [r \in Requests |-> NoHook]
    /\ poll = NoPoll
    /\ queries = [s \in Sources |-> NewQuery]
    /\ page = NoPage
    /\ power = NoPower
    /\ discovery = NoDiscovery
    /\ child = NoChild
    /\ \E env \in SUBSET Faults : dom = [NoDom EXCEPT !.env = env]

NextPdf ==
    \/ exportWorkloadToPDF
    \/ captureSystemMonitorSidebar
    \/ captureWorkload
    \/ captureSystemInfo
    \/ generatePDF

SpecPdf == InitPdf /\ [][NextPdf]_vars

\* C30: once an export has finished, with or without a failure, neither
\* the off-screen container nor the overlay is attached to the document.
ExportLeavesNothing ==
    dom.pc = "finished" => dom.body \cap {LOADING, TEMP_CONTAINER} = {}

=============================================================================
